---- MODULE Spec2Model ----
(***************************************************************************)
(* A model of adafruit_ble: the advertising-data codec (decode_data,       *)
(* compute_length, encode_data), the field descriptors of Advertisement    *)
(* (AdvertisingFlags, String, Struct, LazyField), the Advertisement object  *)
(* itself, HIDService._init_devices, the parser of HID report descriptors, *)
(* BLERadio.start_scan and BLEConnection.__getitem__.                      *)
(*                                                                         *)
(* Byte strings are sequences of integers 0..255.  A Python index i is     *)
(* 0-based: data[i] is written data[i + 1] here.  A dict is the sequence   *)
(* of its entries in insertion order.                                      *)
(***************************************************************************)
EXTENDS Integers, Sequences, FiniteSets, TLC

VARIABLES
    scenario,     \* which part of the library the behaviour exercises
    c_dict,       \* codec: the data_dict handed to encode_data / compute_length
    c_enc,        \* codec: key_encoding
    c_recs,       \* codec: the records a raw buffer was framed from
    c_tail,       \* codec: how the raw buffer ends after those records
    c_data,       \* codec: the buffer handed to decode_data
    c_pc,         \* codec: position of the caller
    c_encoded,    \* codec: outcome of encode_data
    c_length,     \* codec: outcome of compute_length
    c_decoded,    \* codec: outcome of decode_data
    adv,          \* advertisement: "none" before construction, then "live"
    mutable,      \* Advertisement.mutable
    data_dict,    \* Advertisement.data_dict
    attr_flags,   \* the instance attribute "flags" set by LazyField (0: not set)
    heap,         \* the AdvertisingFlags objects constructed so far
    entry_bytes,  \* ScanEntry.advertisement_bytes given to from_entry
    ret,          \* outcome of the last operation on the advertisement
    ops,          \* number of operations applied to the advertisement
    report_map,   \* HIDService.report_map, the HID report descriptor
    devices,      \* HIDService.devices
    h_pc,         \* _init_devices: position of the call
    h_calls,      \* _init_devices: number of calls made on the service
    h_i,          \* _init_devices: i, the read position in the descriptor
    h_item,       \* _init_devices: b, tag, _type, size, data of the last item
    global_table, \* _init_devices: the ten global slots
    local_table,  \* _init_devices: the three local slots
    collections,  \* _init_devices: the stack of open collections
    top_level_collections, \* _init_devices: the closed top-level collections
    h_done,       \* _init_devices: top-level collections already summarised
    h_error,      \* _init_devices: the exception that ended the call
    scan_types,   \* start_scan: advertisement_types
    scan_entries, \* start_scan: the scan entries the adapter has delivered
    scan_out,     \* start_scan: the advertisements the iterator has produced
    remote,       \* the UUIDs of the services of the connected peer
    discovered,   \* BLEConnection._discovered_bleio_services
    constructed,  \* BLEConnection._constructed_services
    discoveries,  \* calls of discover_remote_services on the native connection
    lookups,      \* calls of BLEConnection.__getitem__
    conn_ret      \* outcome of the last BLEConnection.__getitem__

codec_vars == <<c_dict, c_enc, c_recs, c_tail, c_data, c_pc, c_encoded, c_length, c_decoded>>
adv_vars == <<adv, mutable, data_dict, attr_flags, heap, entry_bytes, ret, ops>>
hid_vars == <<report_map, devices, h_pc, h_calls, h_i, h_item, global_table, local_table,
              collections, top_level_collections, h_done, h_error>>
radio_vars == <<scan_types, scan_entries, scan_out, remote, discovered, constructed,
                discoveries, lookups, conn_ret>>
vars == <<scenario, codec_vars, adv_vars, hid_vars, radio_vars>>

(***************************************************************************)
(* Bounds of the model.                                                    *)
(***************************************************************************)
MaxLen == 2        \* longest short value of a drawn mapping
MaxList == 2       \* most values in a sequence-valued entry
MaxRecs == 3       \* most records framed into a raw buffer
MaxOps == 3        \* most state-changing operations on one Advertisement

\* The largest value of struct format "B", the length byte of a record.
UBYTE_MAX == 255

(***************************************************************************)
(* Python sequence primitives.                                             *)
(***************************************************************************)
Min(a, b) == IF a < b THEN a ELSE b

\* s[a:b] for 0 <= a: the elements at 0-based indices a .. b-1 that exist.
Slice(s, a, b) == SubSeq(s, a + 1, Min(b, Len(s)))

\* bytearray(n)
Zeros(n) == [x \in 1..n |-> 0]

\* s[a:b] = v (slice assignment, which resizes when the lengths differ)
SetSlice(s, a, b, v) ==
    LET lo == Min(a, Len(s))
        hi == IF Min(b, Len(s)) < lo THEN lo ELSE Min(b, Len(s))
    IN SubSeq(s, 1, lo) \o v \o SubSeq(s, hi + 1, Len(s))

RECURSIVE Concat(_)
\* b"".join(l)
Concat(l) == IF l = <<>> THEN <<>> ELSE Head(l) \o Concat(Tail(l))

RECURSIVE SumLen(_)
SumLen(l) == IF l = <<>> THEN 0 ELSE Len(Head(l)) + SumLen(Tail(l))

(***************************************************************************)
(* struct: calcsize, pack_into, unpack_from for the formats the library    *)
(* uses: "B" (unsigned byte), "<H" (little-endian unsigned short) and      *)
(* "<b" (signed byte).                                                     *)
(***************************************************************************)
calcsize(fmt) == IF fmt = "<H" THEN 2 ELSE 1

FmtMin(fmt) == IF fmt = "<b" THEN -128 ELSE 0
FmtMax(fmt) == IF fmt = "<H" THEN 65535 ELSE IF fmt = "<b" THEN 127 ELSE UBYTE_MAX

\* Whether struct accepts the value for the format (struct.error otherwise).
pack_in_range(fmt, value) == FmtMin(fmt) <= value /\ value <= FmtMax(fmt)

\* The bytes of an in-range value.
pack_bytes(fmt, value) ==
    IF fmt = "<H" THEN <<value % 256, value \div 256>>
    ELSE IF fmt = "<b" THEN <<(value + 256) % 256>>
    ELSE <<value>>

\* struct.pack_into(fmt, data, offset, value): [ok, data]
pack_into(fmt, data, offset, value) ==
    IF ~pack_in_range(fmt, value) \/ offset + calcsize(fmt) > Len(data)
    THEN [ok |-> FALSE, data |-> <<>>]
    ELSE [ok |-> TRUE,
          data |-> SetSlice(data, offset, offset + calcsize(fmt), pack_bytes(fmt, value))]

\* struct.unpack_from(fmt, data, offset)[0]: [ok, val]
unpack_from(fmt, data, offset) ==
    IF offset + calcsize(fmt) > Len(data)
    THEN [ok |-> FALSE, val |-> 0]
    ELSE IF fmt = "<H" THEN [ok |-> TRUE, val |-> data[offset + 1] + 256 * data[offset + 2]]
    ELSE IF fmt = "<b"
         THEN [ok |-> TRUE,
               val |-> IF data[offset + 1] > 127 THEN data[offset + 1] - 256 ELSE data[offset + 1]]
    ELSE [ok |-> TRUE, val |-> data[offset + 1]]

(***************************************************************************)
(* Values of a data_dict: a byte string, a list of byte strings (a type    *)
(* code decoded more than once) or an AdvertisingFlags object (stored by   *)
(* LazyField), given here by the flags it holds.                           *)
(***************************************************************************)
BytesVal(b) == [t |-> "bytes", b |-> b, l |-> <<>>, flags |-> 0, int |-> TRUE]
ListVal(l) == [t |-> "list", b |-> <<>>, l |-> l, flags |-> 0, int |-> TRUE]
\* int: whether the object's flags attribute is an integer (it is a byte string
\* when the object was built from a type code that was decoded to a list).
ObjVal(f, int) == [t |-> "obj", b |-> <<>>, l |-> <<>>, flags |-> f, int |-> int]

Entry(key, val) == [key |-> key, val |-> val]

DictKeys(d) == {d[x].key : x \in 1..Len(d)}

\* key in d
dict_has(d, key) == key \in DictKeys(d)

\* d[key], for a key of d
dict_get(d, key) == d[CHOOSE x \in 1..Len(d) : d[x].key = key].val

\* d[key] = val: a present key keeps its place, a new one goes last.
dict_set(d, key, val) ==
    IF dict_has(d, key)
    THEN [x \in 1..Len(d) |-> IF d[x].key = key THEN Entry(key, val) ELSE d[x]]
    ELSE Append(d, Entry(key, val))

\* a == b for dicts: the same keys with the same values, in any order.
DictEq(a, b) ==
    /\ Len(a) = Len(b)
    /\ DictKeys(a) = DictKeys(b)
    /\ \A key \in DictKeys(a) : dict_get(a, key) = dict_get(b, key)

(***************************************************************************)
(* decode_data                                                             *)
(***************************************************************************)
\* A decode_data that takes a zero length byte for an empty record.
decode_stop_never(item_length) == FALSE

\* if item_length == 0: break
decode_stop(item_length) == item_length = 0

\* value = data[i + key_size:i + item_length]
decode_value(data, i, key_size, item_length) == Slice(data, i + key_size, i + item_length)

\* A decode_data that puts a repeated value before the ones already seen.
decode_store_front(d, key, value) ==
    IF dict_has(d, key)
    THEN LET old == dict_get(d, key)
             seen == IF old.t = "list" THEN old.l ELSE <<old.b>>
         IN dict_set(d, key, ListVal(<<value>> \o seen))
    ELSE dict_set(d, key, BytesVal(value))

\* The store of one decoded record: a key seen before is promoted to a list
\* and the value appended, a new key holds the value itself.
decode_store(d, key, value) ==
    IF dict_has(d, key)
    THEN LET old == dict_get(d, key)
             seen == IF old.t = "list" THEN old.l ELSE <<old.b>>
         IN dict_set(d, key, ListVal(Append(seen, value)))
    ELSE dict_set(d, key, BytesVal(value))

\* A decode_data that counts the length byte into the advance a second time.
decode_advance_skip(i, item_length) == i + item_length + 1

\* i += item_length (i already stands after the length byte)
decode_advance(i, item_length) == i + item_length

RECURSIVE decode_loop(_, _, _, _)
\* The while loop from index i with the dict built so far: [ok, dict];
\* ok is FALSE when struct.unpack_from raises.
decode_loop(data, key_encoding, i, d) ==
    IF ~(i < Len(data)) THEN [ok |-> TRUE, dict |-> d]
    ELSE LET item_length == data[i + 1]
             j == i + 1
             key == unpack_from(key_encoding, data, j)
         IN IF decode_stop(item_length) THEN [ok |-> TRUE, dict |-> d]
            ELSE IF ~key.ok THEN [ok |-> FALSE, dict |-> <<>>]
            ELSE decode_loop(data, key_encoding, decode_advance(j, item_length),
                             decode_store(d, key.val,
                                          decode_value(data, j, calcsize(key_encoding),
                                                       item_length)))

decode_data(data, key_encoding) == decode_loop(data, key_encoding, 0, <<>>)

(***************************************************************************)
(* compute_length                                                          *)
(***************************************************************************)
\* len(value) of a value that is not a list; AdvertisingFlags.__len__ is 1.
py_len(val) == IF val.t = "obj" THEN 1 ELSE Len(val.b)

RECURSIVE value_size(_)
\* The sum the two nested loops accumulate.
value_size(d) ==
    IF d = <<>> THEN 0
    ELSE (IF Head(d).val.t = "list" THEN SumLen(Head(d).val.l) ELSE py_len(Head(d).val))
         + value_size(Tail(d))

\* A compute_length that leaves out the length byte of each record.
compute_length_no_length_bytes(d, key_encoding) ==
    Len(d) * calcsize(key_encoding) + value_size(d)

compute_length(d, key_encoding) ==
    Len(d) + Len(d) * calcsize(key_encoding) + value_size(d)

(***************************************************************************)
(* encode_data                                                             *)
(***************************************************************************)
\* AdvertisingFlags.__bytes__: encoded[0] = self.flags raises unless flags
\* is an integer in 0..255.
flags_bytes_ok(val) == val.int /\ 0 <= val.flags /\ val.flags <= UBYTE_MAX

\* if isinstance(value, list): value = b"".join(value)
encode_join(val) == IF val.t = "list" THEN BytesVal(Concat(val.l)) ELSE val

\* Whether bytes(value) succeeds.
py_bytes_ok(val) == val.t # "obj" \/ flags_bytes_ok(val)

\* bytes(value): a byte string as it is, an AdvertisingFlags as its one byte.
py_bytes(val) == IF val.t = "obj" THEN <<val.flags>> ELSE val.b

\* item_length = key_size + len(value)
encode_item_length(key_size, val) == key_size + py_len(val)

\* An encode_data that masks the item length to one byte before packing it.
encode_pack_length_wrap(data, i, item_length) == pack_into("B", data, i, item_length % 256)

\* struct.pack_into("B", data, i, item_length)
encode_pack_length(data, i, item_length) == pack_into("B", data, i, item_length)

\* An encode_data that leaves the length byte out of the advance.
encode_advance_overlap(i, item_length) == i + item_length

\* i += 1 + item_length
encode_advance(i, item_length) == i + 1 + item_length

RECURSIVE encode_loop(_, _, _, _, _)
\* The for loop from the n-th entry, writing at index i: [ok, data]; ok is
\* FALSE when a pack_into or bytes(value) raises.
encode_loop(d, key_encoding, n, i, data) ==
    IF n > Len(d) THEN [ok |-> TRUE, data |-> data]
    ELSE LET key_size == calcsize(key_encoding)
             value == encode_join(d[n].val)
             item_length == encode_item_length(key_size, value)
             p1 == encode_pack_length(data, i, item_length)
             p2 == pack_into(key_encoding, p1.data, i + 1, d[n].key)
         IN IF ~p1.ok THEN [ok |-> FALSE, data |-> <<>>]
            ELSE IF ~p2.ok THEN [ok |-> FALSE, data |-> <<>>]
            ELSE IF ~py_bytes_ok(value) THEN [ok |-> FALSE, data |-> <<>>]
            ELSE encode_loop(d, key_encoding, n + 1, encode_advance(i, item_length),
                             SetSlice(p2.data, i + 1 + key_size, i + 1 + item_length,
                                      py_bytes(value)))

encode_data(d, key_encoding) ==
    encode_loop(d, key_encoding, 1, 0, Zeros(compute_length(d, key_encoding)))

(***************************************************************************)
(* The inputs the codec is exercised on.                                   *)
(***************************************************************************)
KeyEncodings == {"B", "<H"}

\* Type codes: two per key_encoding, one with a nonzero high byte for "<H".
Keys(key_encoding) == IF key_encoding = "B" THEN {1, 9} ELSE {9, 265}

ByteAlphabet == {0, 65}

SeqsUpTo(S, n) == UNION {[1..k -> S] : k \in 0..n}

ShortValues == SeqsUpTo(ByteAlphabet, MaxLen)

LongValue(n) == [x \in 1..n |-> 65]

\* Values at the limit of the length byte: with the key they make an item
\* length of UBYTE_MAX - 1 .. UBYTE_MAX + 2.
LongValues == {LongValue(UBYTE_MAX - 2), LongValue(UBYTE_MAX - 1), LongValue(UBYTE_MAX)}

ListElems == {b \in ShortValues : Len(b) <= 1} \cup {LongValue(UBYTE_MAX - 2)}

\* Sequence-valued entries hold two or more values.
Lists == UNION {[1..k -> ListElems] : k \in 2..MaxList}

DictValues ==
    {BytesVal(b) : b \in ShortValues \cup LongValues}
        \cup {ListVal(l) : l \in Lists}
        \cup {ObjVal(f, TRUE) : f \in {0, 6}}

\* The dicts with at most one entry per type code, in every insertion order.
Dicts(key_encoding) ==
    LET E == {Entry(k, v) : k \in Keys(key_encoding), v \in DictValues}
    IN {<<>>} \cup {<<e>> : e \in E}
           \cup {<<p[1], p[2]>> : p \in {q \in E \X E : q[1].key # q[2].key}}

RecValues == {<<>>, <<65>>, <<0, 65>>}

Records(key_encoding) ==
    SeqsUpTo({Entry(k, v) : k \in Keys(key_encoding), v \in RecValues}, MaxRecs)

\* One record on the wire: length byte, type code, value.
Frame1(key_encoding, rec) ==
    <<calcsize(key_encoding) + Len(rec.val)>> \o pack_bytes(key_encoding, rec.key) \o rec.val

RECURSIVE Frame(_, _)
Frame(key_encoding, recs) ==
    IF recs = <<>> THEN <<>>
    ELSE Frame1(key_encoding, Head(recs)) \o Frame(key_encoding, Tail(recs))

Garbage == {<<>>, <<0>>, <<65>>, <<2, 9>>, <<9, 1, 1, 65>>}

\* How a raw buffer ends: with its last record ("whole"), with the last
\* record cut short by n bytes, its length byte kept ("cut"), or with a
\* zero length byte and arbitrary bytes after it ("zero").
Tails(key_encoding, recs) ==
    {[kind |-> "whole", n |-> 0, garbage |-> <<>>]}
        \cup {[kind |-> "zero", n |-> 0, garbage |-> g] : g \in Garbage}
        \cup (IF recs = <<>> THEN {}
              ELSE {[kind |-> "cut", n |-> n, garbage |-> <<>>] :
                        n \in 1..(Len(Frame1(key_encoding, recs[Len(recs)])) - 1)})

RawBuffer(key_encoding, recs, tail) ==
    LET whole == Frame(key_encoding, recs)
    IN IF tail.kind = "cut" THEN SubSeq(whole, 1, Len(whole) - tail.n)
       ELSE IF tail.kind = "zero" THEN whole \o <<0>> \o tail.garbage
       ELSE whole

NoTail == [kind |-> "whole", n |-> 0, garbage |-> <<>>]
NoEncoded == [ok |-> FALSE, data |-> <<>>]
NoDecoded == [ok |-> FALSE, dict |-> <<>>]

\* What an operation on the advertisement gave: nothing yet ("init"), None,
\* an exception ("raise"), an integer, a boolean, a string (its code points),
\* a byte string, or an AdvertisingFlags object (its place in the heap).
Ret(op, kind, val, str) == [op |-> op, kind |-> kind, val |-> val, str |-> str]
NoRet == Ret("none", "init", 0, <<>>)

AdvIdle ==
    /\ adv = "none"
    /\ mutable = TRUE
    /\ data_dict = <<>>
    /\ attr_flags = 0
    /\ heap = <<>>
    /\ entry_bytes = <<>>
    /\ ret = NoRet
    /\ ops = 0

\* A slot of a register table: None, or the data bytes of an item.
None == [none |-> TRUE, data |-> <<>>]
Data(data) == [none |-> FALSE, data |-> data]

\* [None] * n
Nones(n) == [x \in 1..n |-> None]

\* The locals b, tag, _type, size, data before the first item is read.
NoItem == [b |-> 0, tag |-> 0, type |-> 0, size |-> 0, data |-> <<>>]

NoError == [exc |-> "", msg |-> ""]

HidIdle ==
    /\ report_map = <<>>
    /\ devices = <<>>
    /\ h_pc = "idle"
    /\ h_calls = 0
    /\ h_i = 0
    /\ h_item = NoItem
    /\ global_table = <<>>
    /\ local_table = <<>>
    /\ collections = <<>>
    /\ top_level_collections = <<>>
    /\ h_done = 0
    /\ h_error = NoError

RadioIdle ==
    /\ scan_types = <<>>
    /\ scan_entries = <<>>
    /\ scan_out = <<>>
    /\ remote = {}
    /\ discovered = <<>>
    /\ constructed = <<>>
    /\ discoveries = 0
    /\ lookups = 0
    /\ conn_ret = NoRet

CodecIdle ==
    /\ c_dict = <<>>
    /\ c_enc = "B"
    /\ c_recs = <<>>
    /\ c_tail = NoTail
    /\ c_data = <<>>
    /\ c_pc = "idle"
    /\ c_encoded = NoEncoded
    /\ c_length = 0
    /\ c_decoded = NoDecoded

\* A caller holds either a dict to encode or a received buffer to decode.
InitCodec ==
    /\ scenario = "codec"
    /\ RadioIdle
    /\ HidIdle
    /\ AdvIdle
    /\ c_enc \in KeyEncodings
    /\ c_encoded = NoEncoded
    /\ c_length = 0
    /\ c_decoded = NoDecoded
    /\ \/ /\ c_pc = "dict"
          /\ c_dict \in Dicts(c_enc)
          /\ c_recs = <<>>
          /\ c_tail = NoTail
          /\ c_data = <<>>
       \/ /\ c_pc = "buffer"
          /\ c_dict = <<>>
          /\ c_recs \in Records(c_enc)
          /\ c_tail \in Tails(c_enc, c_recs)
          /\ c_data = RawBuffer(c_enc, c_recs, c_tail)

\* length = compute_length(data_dict, key_encoding=key_encoding)
ComputeLength ==
    /\ scenario = "codec"
    /\ c_pc = "dict"
    /\ c_length' = compute_length(c_dict, c_enc)
    /\ c_pc' = "measured"
    /\ UNCHANGED <<scenario, c_dict, c_enc, c_recs, c_tail, c_data, c_encoded, c_decoded>>
    /\ UNCHANGED adv_vars
    /\ UNCHANGED hid_vars
    /\ UNCHANGED radio_vars

\* data = encode_data(data_dict, key_encoding=key_encoding)
Encode ==
    /\ scenario = "codec"
    /\ c_pc = "measured"
    /\ c_encoded' = encode_data(c_dict, c_enc)
    /\ c_data' = c_encoded'.data
    /\ c_pc' = IF c_encoded'.ok THEN "encoded" ELSE "raised"
    /\ UNCHANGED <<scenario, c_dict, c_enc, c_recs, c_tail, c_length, c_decoded>>
    /\ UNCHANGED adv_vars
    /\ UNCHANGED hid_vars
    /\ UNCHANGED radio_vars

\* data_dict = decode_data(data, key_encoding=key_encoding)
Decode ==
    /\ scenario = "codec"
    /\ c_pc \in {"encoded", "buffer"}
    /\ c_decoded' = decode_data(c_data, c_enc)
    /\ c_pc' = IF c_pc = "encoded" THEN "roundtrip" ELSE "decoded"
    /\ UNCHANGED <<scenario, c_dict, c_enc, c_recs, c_tail, c_data, c_encoded, c_length>>
    /\ UNCHANGED adv_vars
    /\ UNCHANGED hid_vars
    /\ UNCHANGED radio_vars

NextCodec == ComputeLength \/ Encode \/ Decode

SpecCodec == InitCodec /\ [][NextCodec]_vars

(***************************************************************************)
(* UTF-8, for code points below 2048 (one or two bytes each).              *)
(***************************************************************************)
RECURSIVE utf8_encode(_)
\* value.encode("utf-8")
utf8_encode(s) ==
    IF s = <<>> THEN <<>>
    ELSE (IF Head(s) < 128 THEN <<Head(s)>>
          ELSE <<192 + (Head(s) \div 64), 128 + (Head(s) % 64)>>) \o utf8_encode(Tail(s))

RECURSIVE utf8_decode(_)
\* str(b, "utf-8"): [ok, s]; ok is FALSE for UnicodeDecodeError.  The buffers
\* drawn hold no lead byte of a three or four byte sequence.
utf8_decode(b) ==
    IF b = <<>> THEN [ok |-> TRUE, s |-> <<>>]
    ELSE IF b[1] < 128
         THEN LET rest == utf8_decode(Tail(b))
              IN [ok |-> rest.ok, s |-> <<b[1]>> \o rest.s]
    ELSE IF b[1] >= 194 /\ b[1] < 224 /\ Len(b) >= 2 /\ b[2] >= 128 /\ b[2] < 192
         THEN LET rest == utf8_decode(SubSeq(b, 3, Len(b)))
              IN [ok |-> rest.ok, s |-> <<(b[1] - 192) * 64 + (b[2] - 128)>> \o rest.s]
    ELSE [ok |-> FALSE, s |-> <<>>]

(***************************************************************************)
(* AdvertisingFlag and AdvertisingFlags.  An object of the heap is         *)
(* [adt, flags, int]; int is FALSE when flags holds a byte string.         *)
(***************************************************************************)
\* self._bitmask = 1 << bit_position
bitmask(bit_position) == 2 ^ bit_position

\* (obj.flags & self._bitmask) != 0
flag_get(flags, bit_position) == (flags \div bitmask(bit_position)) % 2 = 1

\* An AdvertisingFlag.__set__ whose clearing branch has lost its "~".
flag_set_unmasked(flags, bit_position, value) ==
    IF value
    THEN (IF flag_get(flags, bit_position) THEN flags ELSE flags + bitmask(bit_position))
    ELSE (IF flag_get(flags, bit_position) THEN bitmask(bit_position) ELSE 0)

\* obj.flags |= self._bitmask, or obj.flags &= ~self._bitmask
flag_set(flags, bit_position, value) ==
    IF value
    THEN (IF flag_get(flags, bit_position) THEN flags ELSE flags + bitmask(bit_position))
    ELSE (IF flag_get(flags, bit_position) THEN flags - bitmask(bit_position) ELSE flags)

\* The data_dict value that is the heap object at ref.
RefVal(ref) == [t |-> "ref", b |-> <<>>, l |-> <<>>, flags |-> ref, int |-> TRUE]

\* The dict as the codec sees it: each object with the flags it holds now.
Deref(d, hp) ==
    [x \in 1..Len(d) |->
        IF d[x].val.t = "ref"
        THEN Entry(d[x].key, ObjVal(hp[d[x].val.flags].flags, hp[d[x].val.flags].int))
        ELSE d[x]]

\* An AdvertisingFlags.__init__ whose default for a mutable advertisement
\* is no flag at all.
AdvertisingFlags_init_no_default(d, mut, adt) ==
    IF dict_has(d, adt)
    THEN LET v == dict_get(d, adt)
         IN IF v.t = "bytes" /\ v.b # <<>>
            THEN [ok |-> TRUE, obj |-> [adt |-> adt, flags |-> v.b[1], int |-> TRUE]]
            ELSE IF v.t = "list"
            THEN [ok |-> TRUE, obj |-> [adt |-> adt, flags |-> 0, int |-> FALSE]]
            ELSE [ok |-> FALSE, obj |-> [adt |-> adt, flags |-> 0, int |-> TRUE]]
    ELSE [ok |-> TRUE, obj |-> [adt |-> adt, flags |-> 0, int |-> TRUE]]

\* AdvertisingFlags.__init__: [ok, obj]; ok is FALSE when data_dict[adt][0]
\* raises (an empty value, or a value that cannot be indexed).
AdvertisingFlags_init(d, mut, adt) ==
    IF dict_has(d, adt)
    THEN LET v == dict_get(d, adt)
         IN IF v.t = "bytes" /\ v.b # <<>>
            THEN [ok |-> TRUE, obj |-> [adt |-> adt, flags |-> v.b[1], int |-> TRUE]]
            ELSE IF v.t = "list"
            THEN [ok |-> TRUE, obj |-> [adt |-> adt, flags |-> 0, int |-> FALSE]]
            ELSE [ok |-> FALSE, obj |-> [adt |-> adt, flags |-> 0, int |-> TRUE]]
    ELSE IF mut
    THEN [ok |-> TRUE, obj |-> [adt |-> adt, flags |-> 6, int |-> TRUE]]
    ELSE [ok |-> TRUE, obj |-> [adt |-> adt, flags |-> 0, int |-> TRUE]]

(***************************************************************************)
(* LazyField.__get__ and the attribute lookup that reaches it.             *)
(***************************************************************************)
FLAGS_ADT == 1
SHORT_NAME_ADT == 8
COMPLETE_NAME_ADT == 9
TX_POWER_ADT == 10

Looked(kind, ref, d, attr, hp) ==
    [kind |-> kind, ref |-> ref, data_dict |-> d, attr_flags |-> attr, heap |-> hp]

\* A LazyField.__get__ whose test of the data has lost its "not".
lazy_absent_inverted(d, mut, adt) == ~mut /\ dict_has(d, adt)

\* if not obj.mutable and self._adt not in obj.data_dict: return None
lazy_absent(d, mut, adt) == ~mut /\ ~dict_has(d, adt)

\* LazyField.__get__: None, or the object constructed, cached on the
\* advertisement and stored in data_dict, or the exception of the constructor.
LazyField_get(d, attr, hp, mut, adt) ==
    IF lazy_absent(d, mut, adt) THEN Looked("none", 0, d, attr, hp)
    ELSE LET made == AdvertisingFlags_init(d, mut, adt)
             ref == Len(hp) + 1
         IN IF ~made.ok THEN Looked("raise", 0, d, attr, hp)
            ELSE Looked("obj", ref, dict_set(d, adt, RefVal(ref)), ref, Append(hp, made.obj))

\* An advertisement.flags on which LazyField's setattr has no effect, so
\* that every read goes through LazyField.__get__.
lookup_flags_uncached(d, attr, hp, mut) == LazyField_get(d, attr, hp, mut, FLAGS_ADT)

\* The expression advertisement.flags: the instance attribute when
\* LazyField has set it (LazyField defines no __set__), else LazyField.__get__.
lookup_flags(d, attr, hp, mut) ==
    IF attr # 0 THEN Looked("obj", attr, d, attr, hp)
    ELSE LazyField_get(d, attr, hp, mut, FLAGS_ADT)

(***************************************************************************)
(* String and Struct descriptors.                                          *)
(***************************************************************************)
\* String.__get__
String_get(op, d, adt) ==
    IF ~dict_has(d, adt) THEN Ret(op, "none", 0, <<>>)
    ELSE LET v == dict_get(d, adt)
         IN IF v.t = "bytes" /\ utf8_decode(v.b).ok
            THEN Ret(op, "str", 0, utf8_decode(v.b).s)
            ELSE Ret(op, "raise", 0, <<>>)

\* String.__set__: obj.data_dict[self._adt] = value.encode("utf-8")
String_set(d, adt, value) == dict_set(d, adt, BytesVal(utf8_encode(value)))

\* Struct.__get__ with format "<b"
Struct_get(op, d, adt) ==
    IF ~dict_has(d, adt) THEN Ret(op, "none", 0, <<>>)
    ELSE LET v == dict_get(d, adt)
         IN IF v.t = "bytes" /\ Len(v.b) = calcsize("<b")
            THEN Ret(op, "int", unpack_from("<b", v.b, 0).val, <<>>)
            ELSE Ret(op, "raise", 0, <<>>)

\* Struct.__set__ with format "<b", for a value struct.pack accepts
Struct_set(d, adt, value) == dict_set(d, adt, BytesVal(pack_bytes("<b", value)))

(***************************************************************************)
(* The Advertisement object: construction, from_entry, and the operations  *)
(* of an application on it.                                                *)
(***************************************************************************)
\* ScanEntry.advertisement_bytes of the entries a scan delivers: an empty
\* payload; flags; flags and tx power; a name without flags; a two byte
\* flags value; the flags record twice; a flags record without value; a
\* short name that is not UTF-8; flags and the complete name twice; a payload that ends
\* inside a type code.
EntryPool ==
    { <<>>,
      <<2, 1, 6>>,
      <<2, 1, 5, 2, 10, 251>>,
      <<3, 9, 195, 169>>,
      <<3, 1, 6, 1>>,
      <<2, 1, 6, 2, 1, 4>>,
      <<1, 1>>,
      <<2, 8, 255>>,
      <<2, 1, 6, 2, 9, 65, 2, 9, 66>>,
      <<3>> }

\* The names an application sets, as code points.
Names == { <<65>>, <<233, 65>> }

\* The transmit powers an application sets; the last is out of range of "<b".
TxPowers == { -128, 5, 128 }

FlagBits == { 0, 1, 2 }

NameAdts == { SHORT_NAME_ADT, COMPLETE_NAME_ADT }

InitAdv ==
    /\ scenario = "adv"
    /\ RadioIdle
    /\ CodecIdle
    /\ HidIdle
    /\ AdvIdle

\* Advertisement()
Advertisement_init ==
    /\ scenario = "adv"
    /\ adv = "none"
    /\ adv' = "live"
    /\ mutable' = TRUE
    /\ data_dict' = <<>>
    /\ ret' = Ret("Advertisement", "none", 0, <<>>)
    /\ UNCHANGED <<scenario, attr_flags, heap, entry_bytes, ops>>
    /\ UNCHANGED codec_vars
    /\ UNCHANGED hid_vars
    /\ UNCHANGED radio_vars

\* Advertisement.from_entry(entry)
from_entry ==
    /\ scenario = "adv"
    /\ adv = "none"
    /\ \E b \in EntryPool :
           LET decoded == decode_data(b, "B")
           IN /\ entry_bytes' = b
              /\ IF decoded.ok
                 THEN /\ adv' = "live"
                      /\ data_dict' = decoded.dict
                      /\ mutable' = FALSE
                      /\ ret' = Ret("from_entry", "none", 0, <<>>)
                 ELSE /\ ret' = Ret("from_entry", "raise", 0, <<>>)
                      /\ UNCHANGED <<adv, data_dict, mutable>>
    /\ UNCHANGED <<scenario, attr_flags, heap, ops>>
    /\ UNCHANGED codec_vars
    /\ UNCHANGED hid_vars
    /\ UNCHANGED radio_vars

\* Whether one more operation may change the advertisement.
MayChange == ops < MaxOps

\* advertisement.flags
get_flags ==
    /\ scenario = "adv"
    /\ adv = "live"
    /\ LET got == lookup_flags(data_dict, attr_flags, heap, mutable)
       IN /\ got.heap # heap => MayChange
          /\ data_dict' = got.data_dict
          /\ attr_flags' = got.attr_flags
          /\ heap' = got.heap
          /\ ops' = IF got.heap # heap THEN ops + 1 ELSE ops
          /\ ret' = Ret("get_flags", got.kind, got.ref, <<>>)
    /\ UNCHANGED <<scenario, adv, mutable, entry_bytes>>
    /\ UNCHANGED codec_vars
    /\ UNCHANGED hid_vars
    /\ UNCHANGED radio_vars

\* advertisement.flags.limited_discovery / general_discovery / le_only
read_flag ==
    /\ scenario = "adv"
    /\ adv = "live"
    /\ \E bit \in FlagBits :
           LET got == lookup_flags(data_dict, attr_flags, heap, mutable)
           IN /\ got.heap # heap => MayChange
              /\ data_dict' = got.data_dict
              /\ attr_flags' = got.attr_flags
              /\ heap' = got.heap
              /\ ops' = IF got.heap # heap THEN ops + 1 ELSE ops
              /\ ret' = IF got.kind = "obj" /\ got.heap[got.ref].int
                        THEN Ret("read_flag", "bool",
                                 IF flag_get(got.heap[got.ref].flags, bit) THEN 1 ELSE 0,
                                 <<bit>>)
                        ELSE Ret("read_flag", "raise", 0, <<bit>>)
    /\ UNCHANGED <<scenario, adv, mutable, entry_bytes>>
    /\ UNCHANGED codec_vars
    /\ UNCHANGED hid_vars
    /\ UNCHANGED radio_vars

\* advertisement.flags.<flag> = value
write_flag ==
    /\ scenario = "adv"
    /\ adv = "live"
    /\ MayChange
    /\ \E bit \in FlagBits, value \in BOOLEAN :
           LET got == lookup_flags(data_dict, attr_flags, heap, mutable)
           IN /\ data_dict' = got.data_dict
              /\ attr_flags' = got.attr_flags
              /\ IF got.kind = "obj" /\ got.heap[got.ref].int
                 THEN /\ heap' = [got.heap EXCEPT
                                      ![got.ref].flags = flag_set(@, bit, value)]
                      /\ ret' = Ret("write_flag", "none", IF value THEN 1 ELSE 0, <<bit>>)
                 ELSE /\ heap' = got.heap
                      /\ ret' = Ret("write_flag", "raise", 0, <<bit>>)
    /\ ops' = ops + 1
    /\ UNCHANGED <<scenario, adv, mutable, entry_bytes>>
    /\ UNCHANGED codec_vars
    /\ UNCHANGED hid_vars
    /\ UNCHANGED radio_vars

\* advertisement.short_name / advertisement.complete_name
get_name ==
    /\ scenario = "adv"
    /\ adv = "live"
    /\ \E adt \in NameAdts : ret' = String_get("get_name", data_dict, adt)
    /\ UNCHANGED <<scenario, adv, mutable, data_dict, attr_flags, heap, entry_bytes, ops>>
    /\ UNCHANGED codec_vars
    /\ UNCHANGED hid_vars
    /\ UNCHANGED radio_vars

\* advertisement.short_name = value / advertisement.complete_name = value
set_name ==
    /\ scenario = "adv"
    /\ adv = "live"
    /\ MayChange
    /\ \E adt \in NameAdts, value \in Names :
           /\ data_dict' = String_set(data_dict, adt, value)
           /\ ret' = Ret("set_name", "none", adt, <<>>)
    /\ ops' = ops + 1
    /\ UNCHANGED <<scenario, adv, mutable, attr_flags, heap, entry_bytes>>
    /\ UNCHANGED codec_vars
    /\ UNCHANGED hid_vars
    /\ UNCHANGED radio_vars

\* advertisement.tx_power
get_tx_power ==
    /\ scenario = "adv"
    /\ adv = "live"
    /\ ret' = Struct_get("get_tx_power", data_dict, TX_POWER_ADT)
    /\ UNCHANGED <<scenario, adv, mutable, data_dict, attr_flags, heap, entry_bytes, ops>>
    /\ UNCHANGED codec_vars
    /\ UNCHANGED hid_vars
    /\ UNCHANGED radio_vars

\* advertisement.tx_power = value; struct.pack raises for a value out of range
set_tx_power ==
    /\ scenario = "adv"
    /\ adv = "live"
    /\ MayChange
    /\ \E value \in TxPowers :
           IF pack_in_range("<b", value)
           THEN /\ data_dict' = Struct_set(data_dict, TX_POWER_ADT, value)
                /\ ret' = Ret("set_tx_power", "none", 0, <<>>)
           ELSE /\ data_dict' = data_dict
                /\ ret' = Ret("set_tx_power", "raise", 0, <<>>)
    /\ ops' = ops + 1
    /\ UNCHANGED <<scenario, adv, mutable, attr_flags, heap, entry_bytes>>
    /\ UNCHANGED codec_vars
    /\ UNCHANGED hid_vars
    /\ UNCHANGED radio_vars

\* bytes(advertisement)
Advertisement_bytes ==
    /\ scenario = "adv"
    /\ adv = "live"
    /\ LET encoded == encode_data(Deref(data_dict, heap), "B")
       IN ret' = IF encoded.ok THEN Ret("bytes", "bytes", 0, encoded.data)
                 ELSE Ret("bytes", "raise", 0, <<>>)
    /\ UNCHANGED <<scenario, adv, mutable, data_dict, attr_flags, heap, entry_bytes, ops>>
    /\ UNCHANGED codec_vars
    /\ UNCHANGED hid_vars
    /\ UNCHANGED radio_vars

\* len(advertisement)
Advertisement_len ==
    /\ scenario = "adv"
    /\ adv = "live"
    /\ ret' = Ret("len", "int", compute_length(Deref(data_dict, heap), "B"), <<>>)
    /\ UNCHANGED <<scenario, adv, mutable, data_dict, attr_flags, heap, entry_bytes, ops>>
    /\ UNCHANGED codec_vars
    /\ UNCHANGED hid_vars
    /\ UNCHANGED radio_vars

NextAdv ==
    \/ Advertisement_init
    \/ from_entry
    \/ get_flags
    \/ read_flag
    \/ write_flag
    \/ get_name
    \/ set_name
    \/ get_tx_power
    \/ set_tx_power
    \/ Advertisement_bytes
    \/ Advertisement_len

SpecAdv == InitAdv /\ [][NextAdv]_vars

\* The advertising module as a whole: the codec called directly, or through
\* an Advertisement.
InitAdvertising == InitCodec \/ InitAdv

NextAdvertising == NextCodec \/ NextAdv

SpecAdvertising == InitAdvertising /\ [][NextAdvertising]_vars

(***************************************************************************)
(* Reference notions the codec properties are stated with.                 *)
(***************************************************************************)
\* The byte string a value stands for on the wire: a list as the
\* concatenation of its values in order, a composite as its flags byte.
WireBytes(val) ==
    IF val.t = "list" THEN Concat(val.l)
    ELSE IF val.t = "obj" THEN <<val.flags>>
    ELSE val.b

\* The dict with every value replaced by the single byte string it stands for.
Flatten(d) == [x \in 1..Len(d) |-> Entry(d[x].key, BytesVal(WireBytes(d[x].val)))]

\* The entries of a dict as wire records.
WireRecords(d) == [x \in 1..Len(d) |-> Entry(d[x].key, WireBytes(d[x].val))]

RECURSIVE Occurrences(_, _)
\* The values the records give for a type code, in encounter order.
Occurrences(recs, key) ==
    IF recs = <<>> THEN <<>>
    ELSE (IF Head(recs).key = key THEN <<Head(recs).val>> ELSE <<>>)
             \o Occurrences(Tail(recs), key)

RecordKeys(recs) == {recs[x].key : x \in 1..Len(recs)}

\* Whether an entry's key and value overflow the length byte.
TooLarge(key_encoding, val) == calcsize(key_encoding) + Len(WireBytes(val)) > UBYTE_MAX

\* C1 (as stated): decoding the encoding of a dict of byte strings and
\* sequences of byte strings gives a dict equal to it, sequences included.
C1_RoundTripAsStated ==
    (c_pc = "roundtrip" /\ \A x \in 1..Len(c_dict) : c_dict[x].val.t # "obj")
        => c_decoded.ok /\ DictEq(c_decoded.dict, c_dict)

\* C1 (amended): decoding the encoding of a dict whose entries fit the length
\* byte gives the same type codes in the same order, each with the single byte
\* string its value stands for: a byte string comes back equal, a sequence
\* comes back as the concatenation of its values in append order.
C1_RoundTripFlattened ==
    c_pc = "roundtrip" => c_decoded.ok /\ c_decoded.dict = Flatten(c_dict)

C1_Witness ==
    /\ c_pc = "roundtrip"
    /\ c_decoded.ok
    /\ \E x \in 1..Len(c_dict) : c_dict[x].val.t = "list" /\ Len(c_dict[x].val.l) >= 2
    /\ \E x \in 1..Len(c_dict) : c_dict[x].val.t = "bytes" /\ c_dict[x].val.b # <<>>

\* C3 (as stated): decode_data raises whenever the buffer ends inside a record,
\* in its type code or in its value bytes.
C3_TruncatedRaises ==
    (c_pc = "decoded" /\ c_tail.kind = "cut") => ~c_decoded.ok

\* C4: a zero length byte ends decode_data without error; the result holds
\* exactly the records before it, whatever bytes follow.
C4_ZeroStops ==
    (c_pc = "decoded" /\ c_tail.kind = "zero")
        => /\ c_decoded.ok
           /\ c_decoded.dict = decode_data(Frame(c_enc, c_recs), c_enc).dict
           /\ DictKeys(c_decoded.dict) = RecordKeys(c_recs)
           /\ \A key \in RecordKeys(c_recs) :
                  WireBytes(dict_get(c_decoded.dict, key)) = Concat(Occurrences(c_recs, key))

C4_Witness ==
    /\ c_pc = "decoded"
    /\ c_tail.kind = "zero"
    /\ Len(c_tail.garbage) >= 2
    /\ c_recs # <<>>
    /\ c_decoded.ok

\* C5: a type code met n >= 2 times maps to the list of its n values in
\* encounter order, a type code met once maps to its value itself.
C5_RepeatsPromoted ==
    (c_pc = "decoded" /\ c_tail.kind = "whole")
        => /\ c_decoded.ok
           /\ DictKeys(c_decoded.dict) = RecordKeys(c_recs)
           /\ \A key \in RecordKeys(c_recs) :
                  LET seen == Occurrences(c_recs, key)
                  IN dict_get(c_decoded.dict, key) =
                         IF Len(seen) >= 2 THEN ListVal(seen) ELSE BytesVal(seen[1])

C5_Witness ==
    /\ c_pc = "decoded"
    /\ c_tail.kind = "whole"
    /\ \E key \in RecordKeys(c_recs) :
           /\ Len(Occurrences(c_recs, key)) = 3
           /\ Occurrences(c_recs, key)[1] # Occurrences(c_recs, key)[3]
           /\ dict_get(c_decoded.dict, key).t = "list"

\* C6: encode_data raises and returns no buffer whenever an entry's key and
\* value (the total of its values for a sequence) exceed 255 bytes.
C6_TooLargeRaises ==
    (c_pc \in {"encoded", "raised", "roundtrip"}
         /\ \E x \in 1..Len(c_dict) : TooLarge(c_enc, c_dict[x].val))
        => c_pc = "raised" /\ ~c_encoded.ok /\ c_encoded.data = <<>>

C6_Witness ==
    /\ c_pc = "raised"
    /\ \E x \in 1..Len(c_dict) :
           /\ c_dict[x].val.t = "list"
           /\ TooLarge(c_enc, c_dict[x].val)
           /\ \A y \in 1..Len(c_dict[x].val.l) :
                  ~TooLarge(c_enc, BytesVal(c_dict[x].val.l[y]))

\* C7: the buffer encode_data returns is the records of the entries in
\* insertion order, each a length byte equal to key width plus value
\* length, the type code and the value bytes, with nothing between or after.
C7_Layout ==
    c_pc \in {"encoded", "roundtrip"}
        => c_encoded.ok /\ c_encoded.data = Frame(c_enc, WireRecords(c_dict))

C7_Witness ==
    /\ c_pc = "encoded"
    /\ Len(c_dict) = 2
    /\ c_dict[1].key > c_dict[2].key
    /\ c_dict[1].val.t = "list"
    /\ Len(c_encoded.data) > 4

(***************************************************************************)
(* Properties of the Advertisement and its descriptors.                    *)
(***************************************************************************)
\* C2: compute_length gives the number of bytes encode_data returns, for
\* dicts of byte strings, lists and composites and either key width, and
\* len(advertisement) gives the number of bytes of bytes(advertisement) in
\* every state an advertisement reaches.
C2_LengthExact ==
    /\ c_pc \in {"encoded", "roundtrip"} => c_length = Len(c_encoded.data)
    /\ adv = "live" =>
           LET encoded == encode_data(Deref(data_dict, heap), "B")
           IN encoded.ok => compute_length(Deref(data_dict, heap), "B") = Len(encoded.data)

C2_Witness ==
    /\ adv = "live"
    /\ ops >= 2
    /\ ret.op = "bytes"
    /\ ret.kind = "bytes"
    /\ \E x \in 1..Len(data_dict) : data_dict[x].val.t = "ref"
    /\ \E x \in 1..Len(data_dict) : data_dict[x].val.t = "list"
    /\ \E x \in 1..Len(data_dict) : data_dict[x].val.t = "bytes"

\* A step that reads one flag of an advertisement on which flags was never
\* looked up and whose data_dict holds no flags entry.
FirstFlagRead ==
    /\ adv = "live"
    /\ attr_flags = 0
    /\ ~dict_has(data_dict, FLAGS_ADT)
    /\ ret'.op = "read_flag"

\* C8 (as stated): the first flag read on a mutable advertisement without
\* flags entry gives general_discovery and le_only true and
\* limited_discovery false, and on an immutable one gives false for each.
C8_DefaultsAsStated ==
    [][FirstFlagRead =>
          /\ ret'.kind = "bool"
          /\ ret'.val = IF mutable /\ ret'.str[1] \in {1, 2} THEN 1 ELSE 0]_vars

\* C8 (amended): the first flag read on a mutable advertisement without flags
\* entry gives general_discovery and le_only true and limited_discovery
\* false; an immutable advertisement without flags entry has no flags
\* object, so reading a flag of it raises and reports no value (only an
\* AdvertisingFlags constructed directly on it would hold 0).
C8_FlagsDefaults ==
    [][FirstFlagRead =>
          IF mutable
          THEN /\ ret'.kind = "bool"
               /\ ret'.val = IF ret'.str[1] \in {1, 2} THEN 1 ELSE 0
          ELSE /\ ret'.kind = "raise"
               /\ attr_flags' = 0
               /\ lookup_flags(data_dict, attr_flags, heap, mutable).kind = "none"
               /\ AdvertisingFlags_init(data_dict, mutable, FLAGS_ADT).obj.flags = 0]_vars

C8_Witness ==
    /\ adv = "live"
    /\ ~mutable
    /\ ~dict_has(data_dict, FLAGS_ADT)
    /\ data_dict # <<>>
    /\ ret.op = "read_flag"
    /\ ret.kind = "raise"

\* C9 (as stated): the data_dict of an advertisement built by from_entry
\* stays the dict decoded from the entry, and every write attempt raises.
C9_ReceivedFrozen ==
    (adv = "live" /\ ~mutable)
        => /\ data_dict = decode_data(entry_bytes, "B").dict
           /\ ret.op \in {"write_flag", "set_name", "set_tx_power"} => ret.kind = "raise"

\* C10: a read of flags on an immutable advertisement whose data_dict has no
\* flags entry returns None, constructs no AdvertisingFlags and changes
\* neither data_dict nor the cached attribute, however often it is repeated.
C10_AbsentReadIsPure ==
    [][(adv = "live" /\ ~mutable /\ ~dict_has(data_dict, FLAGS_ADT)
            /\ ret'.op = "get_flags")
          => /\ ret'.kind = "none"
             /\ heap' = heap
             /\ data_dict' = data_dict
             /\ attr_flags' = attr_flags]_vars

C10_Witness ==
    /\ adv = "live"
    /\ ~mutable
    /\ ~dict_has(data_dict, FLAGS_ADT)
    /\ Len(data_dict) >= 2
    /\ ret.op = "get_flags"
    /\ ret.kind = "none"
    /\ heap = <<>>
    /\ attr_flags = 0

\* The flags the object a flag operation acts on holds before the operation:
\* those of the cached object, or those a first lookup constructs it with.
FlagsBefore ==
    IF attr_flags # 0 THEN heap[attr_flags].flags
    ELSE AdvertisingFlags_init(data_dict, mutable, FLAGS_ADT).obj.flags

\* C11: a flags lookup that gives a composite constructs it on the first read
\* only, caches it on the advertisement and stores it as the data_dict entry
\* of its type; every later read gives that same object and constructs
\* nothing, and a flag read gives what the last write through it stored.
C11_ConstructedOnce ==
    [][/\ Len(heap') <= 1
       /\ (ret'.op = "get_flags" /\ attr_flags = 0 /\ ret'.kind = "obj")
              => /\ heap' # heap
                 /\ Len(heap') = 1
                 /\ attr_flags' = ret'.val
                 /\ attr_flags' = Len(heap')
                 /\ dict_get(data_dict', FLAGS_ADT) = RefVal(attr_flags')
       /\ (ret'.op \in {"get_flags", "read_flag", "write_flag"} /\ attr_flags # 0)
              => /\ Len(heap') = Len(heap)
                 /\ attr_flags' = attr_flags
                 /\ data_dict' = data_dict
                 /\ dict_get(data_dict, FLAGS_ADT) = RefVal(attr_flags)
       /\ (ret'.op = "get_flags" /\ attr_flags # 0)
              => ret'.kind = "obj" /\ ret'.val = attr_flags /\ heap' = heap
       /\ (ret'.op = "read_flag" /\ attr_flags # 0 /\ heap[attr_flags].int)
              => /\ ret'.kind = "bool"
                 /\ heap' = heap
                 /\ (ret'.val = 1) = flag_get(heap[attr_flags].flags, ret'.str[1])
       /\ (ret'.op = "write_flag" /\ ret'.kind = "none")
              => flag_get(heap'[attr_flags'].flags, ret'.str[1]) = (ret'.val = 1)]_vars

C11_Witness ==
    /\ adv = "live"
    /\ ~mutable
    /\ Len(heap) = 1
    /\ attr_flags = 1
    /\ heap[1].flags = 7
    /\ ret.op = "read_flag"
    /\ ret.str = <<0>>
    /\ ret.val = 1

\* C12: a flag write changes the bit of its flag (limited_discovery 0,
\* general_discovery 1, le_only 2) and no other bit of the flags byte, and
\* bytes() of a mutable advertisement whose flags were looked up or set holds
\* exactly one record of type 1, its value the one byte of the current flags.
C12_FlagWrites ==
    [][/\ (ret'.op = "write_flag" /\ ret'.kind = "none")
              => /\ flag_get(heap'[attr_flags'].flags, ret'.str[1]) = (ret'.val = 1)
                 /\ \A bit \in 0..7 :
                        bit # ret'.str[1]
                            => flag_get(heap'[attr_flags'].flags, bit)
                                   = flag_get(FlagsBefore, bit)
                 /\ heap'[attr_flags'].flags \in 0..UBYTE_MAX
       /\ (ret'.op = "bytes" /\ mutable /\ attr_flags # 0)
              => /\ ret'.kind = "bytes"
                 /\ decode_data(ret'.str, "B").ok
                 /\ dict_get(decode_data(ret'.str, "B").dict, FLAGS_ADT)
                        = BytesVal(<<heap[attr_flags].flags>>)]_vars

C12_Witness ==
    /\ adv = "live"
    /\ mutable
    /\ ops = 3
    /\ attr_flags # 0
    /\ heap[attr_flags].flags = 3
    /\ Len(data_dict) = 2
    /\ ret.op = "bytes"
    /\ ret.kind = "bytes"

(***************************************************************************)
(* HIDService._init_devices (services/standard/hid.py).                    *)
(*                                                                         *)
(* A register slot is None or the data bytes of an item.  A collection is  *)
(* the record [type, locals, globals, mains] and an Input or Output leaf   *)
(* the record [tag, locals, globals], as the dicts of the code; "type" in  *)
(* main is "type" \in DOMAIN main.  The dict reports is the sequence of    *)
(* its entries [key, input_size, output_size] in insertion order.          *)
(***************************************************************************)
MaxItems == 2      \* most items drawn after the head of a descriptor
MaxCalls == 2      \* most calls of _init_devices on one service

ITEM_TYPE_MAIN == 0
ITEM_TYPE_GLOBAL == 1
MAIN_ITEM_TAG_START_COLLECTION == 10
MAIN_ITEM_TAG_END_COLLECTION == 12
MAIN_ITEM_TAG_INPUT == 8
MAIN_ITEM_TAG_OUTPUT == 9
MAIN_ITEM_TAG_FEATURE == 11
GLOBAL_SLOTS == 10
LOCAL_SLOTS == 3
APPLICATION == 1

\* tag = (b & 0xf0) >> 4
item_tag(b) == (b \div 16) % 16

\* _type = (b & 0b1100) >> 2
item_type(b) == (b \div 4) % 4

item_size_code(b) == b % 4

\* size = b & 0b11; size = 4 if size == 3 else size
item_size(b) == IF b % 4 = 3 THEN 4 ELSE b % 4

\* The locals after "data = hid_descriptor[i:i+size]", i being the position
\* of the prefix byte.
fetch_item(hid_descriptor, pos) ==
    LET b == hid_descriptor[pos + 1]
    IN [b |-> b,
        tag |-> item_tag(b),
        type |-> item_type(b),
        size |-> item_size(b),
        data |-> Slice(hid_descriptor, pos + 1, pos + 1 + item_size(b))]

Raised(exc, msg) == [exc |-> exc, msg |-> msg]

IndexError == Raised("IndexError", "index out of range")
TypeError == Raised("TypeError", "'NoneType' object is not subscriptable")
UnsupportedMainItem == Raised("RuntimeError", "Unsupported main item in HID descriptor")
UnsupportedCollectionType ==
    Raised("NotImplementedError", "Only Application top level collections supported.")
MultipleReportIds ==
    Raised("NotImplementedError", "Only on report id per Application collection supported")

\* table[tag] = data on a list: an IndexError when tag is beyond the list.
table_store(table, tag, data) ==
    IF tag < Len(table)
    THEN [error |-> NoError, table |-> [table EXCEPT ![tag + 1] = Data(data)]]
    ELSE [error |-> IndexError, table |-> table]

\* x[0] for a slot x of a register table
first_byte(x) ==
    IF x.none THEN [error |-> TypeError, val |-> 0]
    ELSE IF x.data = <<>> THEN [error |-> IndexError, val |-> 0]
    ELSE [error |-> NoError, val |-> x.data[1]]

\* {"type": data, "locals": list(local_table), "globals": list(global_table),
\*  "mains": []}
new_collection(data, locals, globals) ==
    [type |-> data, locals |-> locals, globals |-> globals, mains |-> <<>>]

\* {"tag": tag, "locals": list(local_table), "globals": list(global_table)}
new_main(tag, locals, globals) == [tag |-> tag, locals |-> locals, globals |-> globals]

\* The leaves of the top frame sharing one table of globals
append_to_top_shared(stack, main) ==
    [stack EXCEPT ![Len(stack)].mains =
        Append([n \in 1..Len(@) |-> IF "mains" \in DOMAIN @[n] THEN @[n]
                                    ELSE [@[n] EXCEPT !.globals = main.globals]],
               main)]

\* collections[-1]["mains"].append(main)
append_to_top(stack, main) ==
    [stack EXCEPT ![Len(stack)].mains = Append(@, main)]

reset_locals_keep(locals) == locals

\* local_table = [None] * 3 after a Main item
reset_locals(locals) == Nones(LOCAL_SLOTS)

\* i += size, i having been advanced past the prefix byte already
advance(pos, size) == pos + 1 + size

main_branch_feature_as_input(tag) ==
    IF tag = MAIN_ITEM_TAG_START_COLLECTION THEN "start"
    ELSE IF tag = MAIN_ITEM_TAG_END_COLLECTION THEN "end"
    ELSE IF tag = MAIN_ITEM_TAG_INPUT \/ tag = MAIN_ITEM_TAG_FEATURE THEN "input"
    ELSE IF tag = MAIN_ITEM_TAG_OUTPUT THEN "output"
    ELSE "raise"

\* Which branch of the Main item dispatch a tag takes.
main_branch(tag) ==
    IF tag = MAIN_ITEM_TAG_START_COLLECTION THEN "start"
    ELSE IF tag = MAIN_ITEM_TAG_END_COLLECTION THEN "end"
    ELSE IF tag = MAIN_ITEM_TAG_INPUT THEN "input"
    ELSE IF tag = MAIN_ITEM_TAG_OUTPUT THEN "output"
    ELSE "raise"

\* collections[-1] needs a collection on the stack.
has_top(stack) == Len(stack) > 0

pop_phantom(stack) ==
    IF Len(stack) > 0
    THEN [error |-> NoError,
          top |-> stack[Len(stack)],
          rest |-> SubSeq(stack, 1, Len(stack) - 1)]
    ELSE [error |-> NoError, top |-> new_collection(<<>>, <<>>, <<>>), rest |-> stack]

\* collections.pop(): the last collection and the stack without it, or an
\* IndexError on an empty stack.
pop(stack) ==
    IF Len(stack) > 0
    THEN [error |-> NoError,
          top |-> stack[Len(stack)],
          rest |-> SubSeq(stack, 1, Len(stack) - 1)]
    ELSE [error |-> IndexError, top |-> new_collection(<<>>, <<>>, <<>>), rest |-> stack]

\* while i < len(hid_descriptor)
InItems ==
    /\ scenario = "hid"
    /\ h_pc = "items"
    /\ h_i < Len(report_map)

\* The call ends with an exception raised while the item at i was handled:
\* the prefix byte has been passed, the data bytes have not.
RaiseInItem(it, error) ==
    /\ h_item' = it
    /\ h_i' = h_i + 1
    /\ h_pc' = "raised"
    /\ h_error' = error
    /\ UNCHANGED <<global_table, local_table, collections, top_level_collections>>

devices_kept(old) == old

\* self.devices = []
devices_reset(old) == <<>>

\* self._init_devices(), from its entry to the head of the item loop
init_devices ==
    /\ scenario = "hid"
    /\ h_pc \in {"call", "returned", "raised"}
    /\ h_calls < MaxCalls
    /\ h_calls' = h_calls + 1
    /\ devices' = devices_reset(devices)
    /\ global_table' = Nones(GLOBAL_SLOTS)
    /\ local_table' = Nones(LOCAL_SLOTS)
    /\ collections' = <<>>
    /\ top_level_collections' = <<>>
    /\ h_i' = 0
    /\ h_item' = NoItem
    /\ h_done' = 0
    /\ h_error' = NoError
    /\ h_pc' = "items"
    /\ UNCHANGED <<scenario, report_map>>
    /\ UNCHANGED codec_vars
    /\ UNCHANGED adv_vars
    /\ UNCHANGED radio_vars

\* An item of type Global: global_table[tag] = data
global_item ==
    /\ InItems
    /\ LET it == fetch_item(report_map, h_i)
           stored == table_store(global_table, it.tag, it.data)
       IN /\ it.type = ITEM_TYPE_GLOBAL
          /\ IF stored.error = NoError
             THEN /\ h_item' = it
                  /\ global_table' = stored.table
                  /\ h_i' = advance(h_i, it.size)
                  /\ UNCHANGED <<h_pc, h_error, local_table, collections,
                                 top_level_collections>>
             ELSE RaiseInItem(it, stored.error)
    /\ UNCHANGED <<scenario, report_map, devices, h_calls, h_done>>
    /\ UNCHANGED codec_vars
    /\ UNCHANGED adv_vars
    /\ UNCHANGED radio_vars

\* A Main item StartCollection: a new frame on the stack
start_collection ==
    /\ InItems
    /\ LET it == fetch_item(report_map, h_i)
       IN /\ it.type = ITEM_TYPE_MAIN
          /\ main_branch(it.tag) = "start"
          /\ h_item' = it
          /\ collections' = Append(collections,
                                   new_collection(it.data, local_table, global_table))
          /\ local_table' = reset_locals(local_table)
          /\ h_i' = advance(h_i, it.size)
    /\ UNCHANGED <<scenario, report_map, devices, h_calls, h_done, h_pc, h_error,
                   global_table, top_level_collections>>
    /\ UNCHANGED codec_vars
    /\ UNCHANGED adv_vars
    /\ UNCHANGED radio_vars

\* A Main item EndCollection: the top frame goes to its parent, or to the
\* top-level collections when the stack becomes empty
end_collection ==
    /\ InItems
    /\ LET it == fetch_item(report_map, h_i)
       IN /\ it.type = ITEM_TYPE_MAIN
          /\ main_branch(it.tag) = "end"
          /\ IF pop(collections).error = NoError
             THEN LET collection == pop(collections).top
                      rest == pop(collections).rest
                  IN /\ h_item' = it
                     /\ IF rest = <<>>
                        THEN /\ top_level_collections'
                                    = Append(top_level_collections, collection)
                             /\ collections' = rest
                        ELSE /\ collections' = append_to_top(rest, collection)
                             /\ UNCHANGED top_level_collections
                     /\ local_table' = reset_locals(local_table)
                     /\ h_i' = advance(h_i, it.size)
                     /\ UNCHANGED <<h_pc, h_error, global_table>>
             ELSE RaiseInItem(it, pop(collections).error)
    /\ UNCHANGED <<scenario, report_map, devices, h_calls, h_done>>
    /\ UNCHANGED codec_vars
    /\ UNCHANGED adv_vars
    /\ UNCHANGED radio_vars

\* A Main item Input or Output: a leaf under the top frame
LeafItem(branch) ==
    /\ InItems
    /\ LET it == fetch_item(report_map, h_i)
       IN /\ it.type = ITEM_TYPE_MAIN
          /\ main_branch(it.tag) = branch
          /\ IF has_top(collections)
             THEN /\ h_item' = it
                  /\ collections' = append_to_top(collections,
                                        new_main(branch, local_table, global_table))
                  /\ local_table' = reset_locals(local_table)
                  /\ h_i' = advance(h_i, it.size)
                  /\ UNCHANGED <<h_pc, h_error, global_table, top_level_collections>>
             ELSE RaiseInItem(it, IndexError)
    /\ UNCHANGED <<scenario, report_map, devices, h_calls, h_done>>
    /\ UNCHANGED codec_vars
    /\ UNCHANGED adv_vars
    /\ UNCHANGED radio_vars

input_item == LeafItem("input")

output_item == LeafItem("output")

\* Any other Main item: raise RuntimeError
unsupported_main_item ==
    /\ InItems
    /\ LET it == fetch_item(report_map, h_i)
       IN /\ it.type = ITEM_TYPE_MAIN
          /\ main_branch(it.tag) = "raise"
          /\ RaiseInItem(it, UnsupportedMainItem)
    /\ UNCHANGED <<scenario, report_map, devices, h_calls, h_done>>
    /\ UNCHANGED codec_vars
    /\ UNCHANGED adv_vars
    /\ UNCHANGED radio_vars

\* An item of any other type: local_table[tag] = data
local_item ==
    /\ InItems
    /\ LET it == fetch_item(report_map, h_i)
           stored == table_store(local_table, it.tag, it.data)
       IN /\ it.type \notin {ITEM_TYPE_GLOBAL, ITEM_TYPE_MAIN}
          /\ IF stored.error = NoError
             THEN /\ h_item' = it
                  /\ local_table' = stored.table
                  /\ h_i' = advance(h_i, it.size)
                  /\ UNCHANGED <<h_pc, h_error, global_table, collections,
                                 top_level_collections>>
             ELSE RaiseInItem(it, stored.error)
    /\ UNCHANGED <<scenario, report_map, devices, h_calls, h_done>>
    /\ UNCHANGED codec_vars
    /\ UNCHANGED adv_vars
    /\ UNCHANGED radio_vars

\* The item loop ends: i >= len(hid_descriptor)
items_end ==
    /\ scenario = "hid"
    /\ h_pc = "items"
    /\ h_i >= Len(report_map)
    /\ h_pc' = "summarise"
    /\ UNCHANGED <<scenario, report_map, devices, h_calls, h_i, h_item, global_table,
                   local_table, collections, top_level_collections, h_done, h_error>>
    /\ UNCHANGED codec_vars
    /\ UNCHANGED adv_vars
    /\ UNCHANGED radio_vars

\* report_id in reports
reports_has(reports, report_id) == \E n \in 1..Len(reports) : reports[n].key = report_id

\* reports[report_id] = {"input_size": 0, "output_size": 0} when it is missing
reports_setdefault(reports, report_id) ==
    IF reports_has(reports, report_id) THEN reports
    ELSE Append(reports, [key |-> report_id, input_size |-> 0, output_size |-> 0])

\* report_size * report_count
report_bits(report_size, report_count) == report_size * report_count

\* reports[report_id]["input_size"] += bits, or "output_size" for an output
reports_add(reports, report_id, tag, bits) ==
    [n \in 1..Len(reports) |->
        IF reports[n].key # report_id THEN reports[n]
        ELSE IF tag = "input"
             THEN [reports[n] EXCEPT !.input_size = @ + bits]
        ELSE IF tag = "output"
             THEN [reports[n] EXCEPT !.output_size = @ + bits]
        ELSE reports[n]]

\* The else branch of get_report_info: one Input or Output leaf
leaf_info(main, reports) ==
    LET report_size == first_byte(main.globals[8])
        report_id == first_byte(main.globals[9])
        report_count == first_byte(main.globals[10])
    IN IF report_size.error # NoError
       THEN [error |-> report_size.error, reports |-> reports]
       ELSE IF report_id.error # NoError
       THEN [error |-> report_id.error, reports |-> reports]
       ELSE IF report_count.error # NoError
       THEN [error |-> report_count.error, reports |-> reports]
       ELSE [error |-> NoError,
             reports |-> reports_add(reports_setdefault(reports, report_id.val),
                                     report_id.val, main.tag,
                                     report_bits(report_size.val, report_count.val))]

\* "type" in main
is_collection(main) == "type" \in DOMAIN main

RECURSIVE report_info_loop_flat(_, _, _)
report_info_loop_flat(mains, n, reports) ==
    IF n > Len(mains) THEN [error |-> NoError, reports |-> reports]
    ELSE LET got == IF is_collection(mains[n])
                    THEN [error |-> NoError, reports |-> reports]
                    ELSE leaf_info(mains[n], reports)
         IN IF got.error # NoError THEN got
            ELSE report_info_loop_flat(mains, n + 1, got.reports)

RECURSIVE report_info_loop(_, _, _)
\* for main in collection["mains"], from the n-th on
report_info_loop(mains, n, reports) ==
    IF n > Len(mains) THEN [error |-> NoError, reports |-> reports]
    ELSE LET got == IF is_collection(mains[n])
                    THEN report_info_loop(mains[n].mains, 1, reports)
                    ELSE leaf_info(mains[n], reports)
         IN IF got.error # NoError THEN got
            ELSE report_info_loop(mains, n + 1, got.reports)

get_report_info(collection, reports) == report_info_loop(collection.mains, 1, reports)

byte_length_rounded_up(bits) == (bits + 7) \div 8

\* max_length = size // 8
byte_length(bits) == bits \div 8

Endpoint(kind, report_id, usage_page, usage, max_length) ==
    [kind |-> kind, report_id |-> report_id, usage_page |-> usage_page,
     usage |-> usage, max_length |-> max_length]

\* if output_size > 0, if input_size > 0
endpoint_wanted(size) == size > 0

report_devices_input_first(report, usage_page, usage) ==
    (IF endpoint_wanted(report.input_size)
     THEN <<Endpoint("ReportIn", report.key, usage_page, usage,
                     byte_length(report.input_size))>>
     ELSE <<>>)
    \o
    (IF endpoint_wanted(report.output_size)
     THEN <<Endpoint("ReportOut", report.key, usage_page, usage,
                     byte_length(report.output_size))>>
     ELSE <<>>)

\* The endpoints appended for one report, ReportOut before ReportIn
report_devices(report, usage_page, usage) ==
    (IF endpoint_wanted(report.output_size)
     THEN <<Endpoint("ReportOut", report.key, usage_page, usage,
                     byte_length(report.output_size))>>
     ELSE <<>>)
    \o
    (IF endpoint_wanted(report.input_size)
     THEN <<Endpoint("ReportIn", report.key, usage_page, usage,
                     byte_length(report.input_size))>>
     ELSE <<>>)

wrong_type_never(type) == FALSE

\* collection["type"][0] != 1
wrong_type(type) == type[1] # APPLICATION

too_many_reports_never(reports) == FALSE

\* len(reports) > 1
too_many_reports(reports) == Len(reports) > 1

\* One pass of "for collection in top_level_collections": the exception it
\* raises, or the endpoints it appends.
summarise(collection) ==
    LET usage_page == first_byte(collection.globals[1])
        usage == first_byte(collection.locals[1])
        info == get_report_info(collection, <<>>)
    IN IF collection.type = <<>> THEN [error |-> IndexError, devices |-> <<>>]
       ELSE IF wrong_type(collection.type)
       THEN [error |-> UnsupportedCollectionType, devices |-> <<>>]
       ELSE IF usage_page.error # NoError THEN [error |-> usage_page.error, devices |-> <<>>]
       ELSE IF usage.error # NoError THEN [error |-> usage.error, devices |-> <<>>]
       ELSE IF info.error # NoError THEN [error |-> info.error, devices |-> <<>>]
       ELSE IF too_many_reports(info.reports)
       THEN [error |-> MultipleReportIds, devices |-> <<>>]
       ELSE IF info.reports = <<>> THEN [error |-> IndexError, devices |-> <<>>]
       ELSE [error |-> NoError,
             devices |-> report_devices(info.reports[1], usage_page.val, usage.val)]

\* The body of the loop over the top-level collections, for the next one
summarise_collection ==
    /\ scenario = "hid"
    /\ h_pc = "summarise"
    /\ h_done < Len(top_level_collections)
    /\ LET got == summarise(top_level_collections[h_done + 1])
       IN IF got.error = NoError
          THEN /\ devices' = devices \o got.devices
               /\ h_done' = h_done + 1
               /\ UNCHANGED <<h_pc, h_error>>
          ELSE /\ h_pc' = "raised"
               /\ h_error' = got.error
               /\ UNCHANGED <<devices, h_done>>
    /\ UNCHANGED <<scenario, report_map, h_calls, h_i, h_item, global_table, local_table,
                   collections, top_level_collections>>
    /\ UNCHANGED codec_vars
    /\ UNCHANGED adv_vars
    /\ UNCHANGED radio_vars

\* The loop over the top-level collections ends and _init_devices returns
init_devices_return ==
    /\ scenario = "hid"
    /\ h_pc = "summarise"
    /\ h_done >= Len(top_level_collections)
    /\ h_pc' = "returned"
    /\ UNCHANGED <<scenario, report_map, devices, h_calls, h_i, h_item, global_table,
                   local_table, collections, top_level_collections, h_done, h_error>>
    /\ UNCHANGED codec_vars
    /\ UNCHANGED adv_vars
    /\ UNCHANGED radio_vars

(***************************************************************************)
(* The report descriptors a service is built with: a head and at most      *)
(* MaxItems further items.                                                 *)
(***************************************************************************)
UsagePage(page) == <<5, page>>
UsagePageLong(page) == <<7, page, 0, 0, 0>>
ReportSize(bits) == <<117, bits>>
ReportId(id) == <<133, id>>
ReportCount(count) == <<149, count>>
ReportCountWide(count) == <<150, count, 0>>
Usage(usage) == <<9, usage>>
StartCollection(type) == <<161, type>>
EndCollection == <<192>>
Input == <<129, 2>>
Output == <<145, 2>>
Feature == <<177, 2>>
\* A zero byte: a Main item of tag 0 without data
ZeroItem == <<0>>
\* The prefix of a Report Count item of two data bytes, without them: the
\* two bytes that follow it, if any, are its data
WidePrefix == <<150>>

\* Usage Page 1 is Generic Desktop, Usage 6 Keyboard, collection type 0
\* Physical.
Globals(bits, count) ==
    ReportSize(bits) \o ReportCount(count) \o ReportId(1) \o UsagePage(1)

OpenApplication == Usage(6) \o StartCollection(APPLICATION)

ClosedApplication == OpenApplication \o Input \o EndCollection

Heads ==
    { <<>>,
      Globals(8, 8),
      Globals(8, 8) \o OpenApplication,
      Globals(8, 8) \o OpenApplication \o StartCollection(0),
      Globals(8, 8) \o OpenApplication \o StartCollection(0) \o Input,
      Globals(8, 8) \o OpenApplication \o Input \o ReportId(2),
      Globals(8, 8) \o OpenApplication \o Input \o StartCollection(0)
          \o ReportId(2) \o Output,
      Globals(8, 8) \o ClosedApplication,
      Globals(8, 8) \o ClosedApplication \o OpenApplication,
      Globals(8, 8) \o ClosedApplication \o OpenApplication \o Output,
      Globals(8, 8) \o OpenApplication \o Input \o ReportCountWide(3),
      UsagePage(1) \o OpenApplication \o Input,
      ReportSize(8) \o ReportCount(8) \o UsagePage(1) \o OpenApplication \o Input,
      Globals(1, 3) \o OpenApplication \o Output }

Items ==
    { Input, Output, Feature, ZeroItem, EndCollection,
      Usage(6), StartCollection(APPLICATION), StartCollection(0),
      ReportId(2), ReportCountWide(3), UsagePageLong(1), WidePrefix }

ItemLists == UNION { [1..n -> Items] : n \in 0..MaxItems }

Descriptors == { head \o Concat(items) : head \in Heads, items \in ItemLists }

\* HIDService(hid_descriptor), about to call _init_devices
InitHid ==
    /\ scenario = "hid"
    /\ RadioIdle
    /\ CodecIdle
    /\ AdvIdle
    /\ report_map \in Descriptors
    /\ devices = <<>>
    /\ h_pc = "call"
    /\ h_calls = 0
    /\ h_i = 0
    /\ h_item = NoItem
    /\ global_table = <<>>
    /\ local_table = <<>>
    /\ collections = <<>>
    /\ top_level_collections = <<>>
    /\ h_done = 0
    /\ h_error = NoError

NextHid ==
    \/ init_devices
    \/ global_item
    \/ start_collection
    \/ end_collection
    \/ input_item
    \/ output_item
    \/ unsupported_main_item
    \/ local_item
    \/ items_end
    \/ summarise_collection
    \/ init_devices_return

SpecHid == InitHid /\ [][NextHid]_vars

(***************************************************************************)
(* What a report descriptor says, read off its bytes without the parser:   *)
(* the items of the stream, and the Input and Output items beneath each    *)
(* top-level collection with the Report Size, Report ID and Report Count   *)
(* in force at them.                                                       *)
(***************************************************************************)
RECURSIVE RefItemsFrom(_, _)
RefItemsFrom(desc, pos) ==
    IF pos > Len(desc) THEN <<>>
    ELSE LET prefix == desc[pos]
             code == prefix % 4
             size == IF code = 3 THEN 4 ELSE code
         IN <<[at |-> pos - 1,
               tag |-> prefix \div 16,
               type |-> (prefix % 16) \div 4,
               data |-> SubSeq(desc, pos + 1, Min(pos + size, Len(desc)))]>>
            \o RefItemsFrom(desc, pos + 1 + size)

RefItems(desc) == RefItemsFrom(desc, 1)

RefKind(it) ==
    IF it.type = 1 THEN "global"
    ELSE IF it.type # 0 THEN "local"
    ELSE IF it.tag = 10 THEN "start"
    ELSE IF it.tag = 12 THEN "end"
    ELSE IF it.tag = 8 THEN "input"
    ELSE IF it.tag = 9 THEN "output"
    ELSE "unsupported"

\* The value of a one-byte item (the low byte of a wider one); -1 without data.
RefValue(it) == IF it.data = <<>> THEN -1 ELSE it.data[1]

RECURSIVE RefLeavesFrom(_, _, _, _, _, _, _, _)
RefLeavesFrom(items, n, depth, closed, size, id, count, k) ==
    IF n > Len(items) THEN <<>>
    ELSE LET it == items[n]
             kind == RefKind(it)
         IN IF kind = "global" /\ it.tag = 7
            THEN RefLeavesFrom(items, n + 1, depth, closed, RefValue(it), id, count, k)
            ELSE IF kind = "global" /\ it.tag = 8
            THEN RefLeavesFrom(items, n + 1, depth, closed, size, RefValue(it), count, k)
            ELSE IF kind = "global" /\ it.tag = 9
            THEN RefLeavesFrom(items, n + 1, depth, closed, size, id, RefValue(it), k)
            ELSE IF kind = "start"
            THEN RefLeavesFrom(items, n + 1, depth + 1, closed, size, id, count, k)
            ELSE IF kind = "end"
            THEN RefLeavesFrom(items, n + 1, depth - 1,
                               IF depth = 1 THEN closed + 1 ELSE closed,
                               size, id, count, k)
            ELSE IF kind \in {"input", "output"} /\ depth >= 1 /\ closed = k - 1
            THEN <<[kind |-> kind, size |-> size, id |-> id, count |-> count]>>
                 \o RefLeavesFrom(items, n + 1, depth, closed, size, id, count, k)
            ELSE RefLeavesFrom(items, n + 1, depth, closed, size, id, count, k)

\* The Input and Output items beneath the k-th top-level collection
RefLeaves(desc, k) == RefLeavesFrom(RefItems(desc), 1, 0, 0, -1, -1, -1, k)

RECURSIVE RefSum(_, _, _)
RefSum(leaves, kind, id) ==
    IF leaves = <<>> THEN 0
    ELSE (IF Head(leaves).kind = kind /\ Head(leaves).id = id
          THEN Head(leaves).size * Head(leaves).count
          ELSE 0)
         + RefSum(Tail(leaves), kind, id)

\* The report IDs carried by the Input and Output items of the k-th top-level
\* collection
RefIds(desc, k) == { RefLeaves(desc, k)[n].id : n \in 1..Len(RefLeaves(desc, k)) }

\* The endpoints of a kind among a list of endpoints
OfKind(made, kind) == { n \in 1..Len(made) : made[n].kind = kind }

\* The keyboard descriptor: Usage Page Generic Desktop, Usage Keyboard, one
\* Application collection, one Input of Report Size 8, Report Count 8,
\* Report ID 1
KeyboardExample == Globals(8, 8) \o ClosedApplication

\* C13: a top-level collection that is summarised gets a ReportOut exactly
\* when its accumulated output_size is > 0 and a ReportIn exactly when its
\* input_size is > 0, each for the report's ID and with max_length the whole
\* bytes in the bit length (max_length * 8 <= bits < max_length * 8 + 8),
\* and nothing else is appended; the keyboard descriptor gives one ReportIn
\* of 8 bytes and no ReportOut.
C13_EndpointsBySize ==
    [][/\ (h_pc = "summarise" /\ h_done' = h_done + 1)
              => LET report == get_report_info(top_level_collections[h_done + 1],
                                               <<>>).reports[1]
                     made == SubSeq(devices', Len(devices) + 1, Len(devices'))
                     outs == OfKind(made, "ReportOut")
                     ins == OfKind(made, "ReportIn")
                 IN /\ SubSeq(devices', 1, Len(devices)) = devices
                    /\ Cardinality(outs) = IF report.output_size > 0 THEN 1 ELSE 0
                    /\ Cardinality(ins) = IF report.input_size > 0 THEN 1 ELSE 0
                    /\ Len(made) = Cardinality(outs) + Cardinality(ins)
                    /\ \A n \in outs :
                           /\ made[n].report_id = report.key
                           /\ made[n].max_length * 8 <= report.output_size
                           /\ report.output_size < made[n].max_length * 8 + 8
                    /\ \A n \in ins :
                           /\ made[n].report_id = report.key
                           /\ made[n].max_length * 8 <= report.input_size
                           /\ report.input_size < made[n].max_length * 8 + 8
       /\ (report_map = KeyboardExample /\ h_pc' = "returned")
              => devices' = <<Endpoint("ReportIn", 1, 1, 6, 8)>>]_vars

\* A collection of 3 input bits and 3 output bits was given two endpoints of
\* 0 bytes.
C13_Witness ==
    /\ h_pc = "returned"
    /\ report_map = Globals(1, 3) \o OpenApplication \o Output \o Input \o EndCollection
    /\ Len(devices) = 2
    /\ devices[1].kind = "ReportOut"
    /\ devices[1].max_length = 0
    /\ devices[2].kind = "ReportIn"

C15_MultipleReportIds ==
    [][(/\ h_pc = "summarise"
        /\ h_done < Len(top_level_collections)
        /\ Cardinality(RefIds(report_map, h_done + 1)) >= 2)
           => /\ h_pc' = "raised"
              /\ devices' = devices
              /\ h_done' = h_done
              /\ LET collection == top_level_collections[h_done + 1]
                 IN (/\ collection.type # <<>>
                     /\ collection.type[1] = APPLICATION
                     /\ first_byte(collection.globals[1]).error = NoError
                     /\ first_byte(collection.locals[1]).error = NoError
                     /\ \A n \in 1..Len(RefLeaves(report_map, h_done + 1)) :
                            LET leaf == RefLeaves(report_map, h_done + 1)[n]
                            IN leaf.size # -1 /\ leaf.id # -1 /\ leaf.count # -1)
                        => h_error' = MultipleReportIds]_vars

\* Report ID 1 on the Input of the Application collection and Report ID 2 on
\* the Output of the Physical collection nested in it.
C15_Witness ==
    /\ h_pc = "raised"
    /\ h_error = MultipleReportIds
    /\ report_map = Globals(8, 8) \o OpenApplication \o Input \o StartCollection(0)
                        \o ReportId(2) \o Output \o EndCollection \o EndCollection
    /\ devices = <<>>
    /\ h_done = 0

\* The item of the stream that starts at offset pos of the descriptor
RefItemAt(desc, pos) ==
    LET items == RefItems(desc)
    IN { items[n] : n \in { m \in 1..Len(items) : items[m].at = pos } }

\* C16: when the item loop comes to a Main item whose tag is none of
\* StartCollection, EndCollection, Input, Output (Feature among them), with
\* or without an open collection, the call ends with the RuntimeError for an
\* unsupported main item; so no call gets past the item loop on a descriptor
\* whose item stream holds such an item.
C16_UnsupportedMainItem ==
    [][/\ (/\ h_pc = "items"
           /\ \E it \in RefItemAt(report_map, h_i) : RefKind(it) = "unsupported")
              => /\ h_pc' = "raised"
                 /\ h_error' = UnsupportedMainItem
                 /\ devices' = devices
       /\ h_pc' \in {"summarise", "returned"}
              => \A n \in 1..Len(RefItems(report_map)) :
                     RefKind(RefItems(report_map)[n]) # "unsupported"]_vars

\* A Feature item inside an open Application collection ended the call.
C16_Witness ==
    /\ h_pc = "raised"
    /\ h_error = UnsupportedMainItem
    /\ h_item.tag = MAIN_ITEM_TAG_FEATURE
    /\ Len(collections) = 1
    /\ report_map = Globals(8, 8) \o OpenApplication \o Input \o Feature

\* C17: when the item loop comes to an EndCollection, Input or Output item
\* while no collection is open, the call ends with an IndexError there: the
\* position does not move past the item, and the open and the closed
\* collections and the devices stay as they were.
C17_MainOutsideCollection ==
    [][(/\ h_pc = "items"
        /\ collections = <<>>
        /\ \E it \in RefItemAt(report_map, h_i) : RefKind(it) \in {"end", "input", "output"})
           => /\ h_pc' = "raised"
              /\ h_error' = IndexError
              /\ h_i' = h_i + 1
              /\ collections' = <<>>
              /\ top_level_collections' = top_level_collections
              /\ devices' = devices]_vars

\* An Output item after the only collection was closed ended the call
\* without touching that collection.
C17_Witness ==
    /\ h_pc = "raised"
    /\ h_error = IndexError
    /\ h_item.tag = MAIN_ITEM_TAG_OUTPUT
    /\ collections = <<>>
    /\ Len(top_level_collections) = 1
    /\ Len(top_level_collections[1].mains) = 1

\* C18: the item loop is never left, and the call never returns, while a
\* collection is still open.
C18_UnbalancedRaises ==
    h_pc \in {"summarise", "returned"} => collections = <<>>

\* The collection types of the top-level collections closed in a descriptor,
\* in the order of their EndCollection items
RECURSIVE RefTopTypesFrom(_, _, _)
RefTopTypesFrom(items, n, open) ==
    IF n > Len(items) THEN <<>>
    ELSE IF RefKind(items[n]) = "start"
    THEN RefTopTypesFrom(items, n + 1, Append(open, items[n].data))
    ELSE IF RefKind(items[n]) = "end" /\ Len(open) = 1
    THEN <<open[1]>> \o RefTopTypesFrom(items, n + 1, <<>>)
    ELSE IF RefKind(items[n]) = "end" /\ Len(open) > 1
    THEN RefTopTypesFrom(items, n + 1, SubSeq(open, 1, Len(open) - 1))
    ELSE RefTopTypesFrom(items, n + 1, open)

RefTopTypes(desc) == RefTopTypesFrom(RefItems(desc), 1, <<>>)

\* C19: a pass of the summarising loop raises the NotImplementedError for
\* the collection type exactly when the type of its top-level collection,
\* as the descriptor gives it, is not Application (1), whatever the types of
\* the collections nested in it, and then appends no endpoint; so a call
\* returns only when every closed top-level collection is an Application
\* collection.
C19_TopLevelApplication ==
    [][/\ (h_pc = "summarise" /\ h_done < Len(top_level_collections))
              => LET type == RefTopTypes(report_map)[h_done + 1]
                 IN /\ type # <<>>
                    /\ (type[1] # APPLICATION)
                           <=> (h_pc' = "raised" /\ h_error' = UnsupportedCollectionType)
                    /\ type[1] # APPLICATION => devices' = devices
       /\ h_pc' = "returned"
              => \A k \in 1..Len(RefTopTypes(report_map)) :
                     RefTopTypes(report_map)[k][1] = APPLICATION]_vars

\* The second top-level collection of a descriptor, a Physical one, ended
\* the call after the first, an Application collection, got its endpoint.
C19_Witness ==
    /\ h_pc = "raised"
    /\ h_error = UnsupportedCollectionType
    /\ h_done = 1
    /\ Len(top_level_collections) = 2
    /\ top_level_collections[2].type = <<0>>
    /\ devices = <<Endpoint("ReportIn", 1, 1, 6, 8)>>

RECURSIVE RefGlobalsFrom(_, _, _, _)
RefGlobalsFrom(items, n, pos, table) ==
    IF n > Len(items) \/ items[n].at >= pos THEN table
    ELSE IF RefKind(items[n]) = "global" /\ items[n].tag < 10
    THEN RefGlobalsFrom(items, n + 1, pos,
                        [table EXCEPT ![items[n].tag + 1] = Data(items[n].data)])
    ELSE RefGlobalsFrom(items, n + 1, pos, table)

\* The ten global slots after the items before offset pos: each holds the
\* data of the last Global item of its tag among them, None when there is
\* none
RefGlobals(desc, pos) == RefGlobalsFrom(RefItems(desc), 1, pos, Nones(10))

\* C20: while the items are read, each of the ten global slots holds the
\* data of the last Global item of its tag read so far (None when there was
\* none), however many Main and Local items came since; the three local
\* slots are all None after each StartCollection, EndCollection, Input or
\* Output item that is handled, and no other item clears a local slot: a
\* Global item leaves the local slots as they are and a Local item changes
\* the slot of its tag only.
C20_Tables ==
    [][/\ h_pc' \in {"items", "summarise", "returned", "raised"}
              => global_table' = RefGlobals(report_map', h_i')
       /\ (h_pc = "items" /\ h_pc' = "items" /\ h_i' # h_i)
              => \E it \in RefItemAt(report_map, h_i) :
                     /\ RefKind(it) \in {"start", "end", "input", "output"}
                            => local_table' = Nones(LOCAL_SLOTS)
                     /\ RefKind(it) = "global" => local_table' = local_table
                     /\ RefKind(it) = "local"
                            => /\ local_table'[it.tag + 1] = Data(it.data)
                               /\ \A t \in 0..(LOCAL_SLOTS - 1) :
                                      t # it.tag => local_table'[t + 1] = local_table[t + 1]]_vars

\* Inside an open collection, a Usage item and then a Report Count item were
\* read: the Usage is still in its local slot and the Report Size set before
\* the StartCollection in its global slot.
C20_Witness ==
    /\ h_pc = "items"
    /\ h_item.type = ITEM_TYPE_GLOBAL
    /\ Len(collections) = 1
    /\ local_table[1] = Data(<<6>>)
    /\ global_table[8] = Data(<<8>>)
    /\ global_table[10] = Data(<<3, 0>>)

\* The kind and report ID of the endpoints of the k-th top-level collection,
\* output before input, for a collection whose items carry one report ID
RefEndpointsOf(desc, k) ==
    LET leaves == RefLeaves(desc, k)
        id == CHOOSE x \in RefIds(desc, k) : TRUE
    IN IF RefIds(desc, k) = {} THEN <<>>
       ELSE (IF RefSum(leaves, "output", id) > 0
             THEN <<[kind |-> "ReportOut", report_id |-> id]>> ELSE <<>>)
            \o (IF RefSum(leaves, "input", id) > 0
                THEN <<[kind |-> "ReportIn", report_id |-> id]>> ELSE <<>>)

RECURSIVE RefEndpoints(_, _)
\* The same for the first n top-level collections, in the order they are
\* closed in the descriptor
RefEndpoints(desc, n) ==
    IF n = 0 THEN <<>> ELSE RefEndpoints(desc, n - 1) \o RefEndpointsOf(desc, n)

\* C21: at every moment devices lists, for the top-level collections
\* summarised so far and in the order they were closed in the descriptor,
\* the ReportOut of the collection's report (if its output bit length is
\* > 0) and then its ReportIn (if its input bit length is > 0).
C21_DeviceOrder ==
    scenario = "hid"
        => [n \in 1..Len(devices) |->
               [kind |-> devices[n].kind, report_id |-> devices[n].report_id]]
               = RefEndpoints(report_map, h_done)

\* Two top-level collections, the first with an Input, the second with an
\* Output and an Input: ReportIn of the first, then ReportOut and ReportIn of
\* the second.
C21_Witness ==
    /\ h_pc = "returned"
    /\ Len(top_level_collections) = 2
    /\ Len(devices) = 3
    /\ devices[1].kind = "ReportIn"
    /\ devices[2].kind = "ReportOut"
    /\ devices[3].kind = "ReportIn"

RECURSIVE RefLocalsFrom(_, _, _, _)
RefLocalsFrom(items, n, pos, table) ==
    IF n > Len(items) \/ items[n].at >= pos THEN table
    ELSE IF RefKind(items[n]) = "local" /\ items[n].tag < 3
    THEN RefLocalsFrom(items, n + 1, pos,
                       [table EXCEPT ![items[n].tag + 1] = Data(items[n].data)])
    ELSE IF RefKind(items[n]) = "global"
    THEN RefLocalsFrom(items, n + 1, pos, table)
    ELSE RefLocalsFrom(items, n + 1, pos, Nones(3))

\* The three local slots after the items before offset pos: the data of the
\* Local items since the last Main item among them
RefLocals(desc, pos) == RefLocalsFrom(RefItems(desc), 1, pos, Nones(3))

RECURSIVE RefTopStartsFrom(_, _, _)
RefTopStartsFrom(items, n, open) ==
    IF n > Len(items) THEN <<>>
    ELSE IF RefKind(items[n]) = "start"
    THEN RefTopStartsFrom(items, n + 1, Append(open, items[n].at))
    ELSE IF RefKind(items[n]) = "end" /\ Len(open) = 1
    THEN <<open[1]>> \o RefTopStartsFrom(items, n + 1, <<>>)
    ELSE IF RefKind(items[n]) = "end" /\ Len(open) > 1
    THEN RefTopStartsFrom(items, n + 1, SubSeq(open, 1, Len(open) - 1))
    ELSE RefTopStartsFrom(items, n + 1, open)

\* The offsets of the StartCollection items of the top-level collections
\* closed in a descriptor, in the order of their EndCollection items
RefTopStarts(desc) == RefTopStartsFrom(RefItems(desc), 1, <<>>)

\* The endpoints of the k-th top-level collection with the Usage Page and
\* Usage in force at its StartCollection and the whole bytes of its bit
\* lengths
RefDevicesOf(desc, k) ==
    LET made == RefEndpointsOf(desc, k)
        leaves == RefLeaves(desc, k)
        start == RefTopStarts(desc)[k]
    IN [n \in 1..Len(made) |->
           [kind |-> made[n].kind,
            report_id |-> made[n].report_id,
            usage_page |-> RefGlobals(desc, start)[1].data[1],
            usage |-> RefLocals(desc, start)[1].data[1],
            max_length |-> RefSum(leaves,
                                  IF made[n].kind = "ReportIn" THEN "input" ELSE "output",
                                  made[n].report_id) \div 8]]

RECURSIVE RefDevices(_, _)
RefDevices(desc, n) ==
    IF n = 0 THEN <<>> ELSE RefDevices(desc, n - 1) \o RefDevicesOf(desc, n)

\* C22: whenever a call of _init_devices has returned, the first or a later
\* one on the same service, devices holds the endpoints of one parse of the
\* descriptor, each once: same kinds, report IDs, usage pages, usages and
\* sizes, in the same order.
C22_Idempotent ==
    (scenario = "hid" /\ h_pc = "returned")
        => devices = RefDevices(report_map, Len(RefTopStarts(report_map)))

\* A second call returned with the two endpoints of the one collection.
C22_Witness ==
    /\ h_pc = "returned"
    /\ h_calls = 2
    /\ devices = <<Endpoint("ReportOut", 1, 1, 6, 0), Endpoint("ReportIn", 1, 1, 6, 0)>>

\* C23: after a call of _init_devices has raised, devices is empty.
C23_NoPartialDevices ==
    (scenario = "hid" /\ h_pc = "raised") => devices = <<>>

(***************************************************************************)
(* BLERadio.start_scan (adafruit_ble/__init__.py).                         *)
(*                                                                         *)
(* The Advertisement subclasses an application scans for are not part of   *)
(* this package: three stand for them here, each with the prefix of its    *)
(* class attribute.  A prefix is a run of fields <<n, b1, ..., bn>>; the    *)
(* native ScanEntry.matches(prefix) holds when the entry has, for every     *)
(* field, a record that starts with b1..bn, and the native scan delivers   *)
(* the entries that have such a record for some field of its prefixes.     *)
(***************************************************************************)
MaxTypes == 2      \* most advertisement_types given to start_scan
MaxEntries == 2    \* most scan entries the adapter delivers

AdvertisementTypes == {"Advertisement", "Name", "NameAndFlags", "TxPower"}

\* class Name(Advertisement), class NameAndFlags(Name), class TxPower(Advertisement)
Bases ==
    [Advertisement |-> {"Advertisement"},
     Name |-> {"Name", "Advertisement"},
     NameAndFlags |-> {"NameAndFlags", "Name", "Advertisement"},
     TxPower |-> {"TxPower", "Advertisement"}]

issubclass(cls, base) == base \in Bases[cls]

\* cls.prefix; Advertisement.prefix is b"\x00", the empty field
prefix(cls) ==
    IF cls = "Advertisement" THEN <<0>>
    ELSE IF cls = "Name" THEN <<1, COMPLETE_NAME_ADT>>
    ELSE IF cls = "NameAndFlags" THEN <<1, COMPLETE_NAME_ADT, 1, FLAGS_ADT>>
    ELSE <<1, TX_POWER_ADT>>

RECURSIVE prefix_fields(_)
\* The fields of a prefix, each without its length byte
prefix_fields(p) ==
    IF p = <<>> THEN <<>>
    ELSE <<Slice(p, 1, 1 + p[1])>> \o prefix_fields(Slice(p, 1 + p[1], Len(p)))

\* Whether an entry has a record that starts with the bytes of a field
field_found(entry, field) ==
    IF field = <<>> THEN TRUE
    ELSE /\ decode_data(entry, "B").ok
         /\ field[1] \in DictKeys(decode_data(entry, "B").dict)

\* entry.matches(prefix)
entry_matches(entry, p) ==
    \A n \in 1..Len(prefix_fields(p)) : field_found(entry, prefix_fields(p)[n])

\* cls.matches(entry)
matches(cls, entry) == entry_matches(entry, prefix(cls))

\* prefixes = b"".join(adv.prefix for adv in advertisement_types)
scan_prefixes(types) == Concat([n \in 1..Len(types) |-> prefix(types[n])])

\* Whether the native scan delivers an entry under the given prefixes
adapter_delivers(entry, prefixes) ==
    IF prefixes = <<>> THEN TRUE
    ELSE \E n \in 1..Len(prefix_fields(prefixes)) :
             field_found(entry, prefix_fields(prefixes)[n])

RECURSIVE choose_type(_, _, _, _)
\* for possible_type in advertisement_types: if possible_type.matches(entry)
\* and issubclass(possible_type, adv_type): adv_type = possible_type
choose_type(types, n, entry, adv_type) ==
    IF n > Len(types) THEN adv_type
    ELSE IF matches(types[n], entry) /\ issubclass(types[n], adv_type)
    THEN choose_type(types, n + 1, entry, types[n])
    ELSE choose_type(types, n + 1, entry, adv_type)

\* bool(advertisement): Advertisement defines __len__ and no __bool__
truthy(d) == compute_length(d, "B") # 0

\* The payloads of the scan entries the adapter may deliver
ScanPool ==
    { <<>>,
      <<2, 1, 6>>,
      <<2, 9, 65>>,
      <<2, 1, 6, 2, 9, 65>>,
      <<2, 10, 5>>,
      <<2, 9, 65, 2, 10, 5>> }

TypeLists == UNION { [1..n -> AdvertisementTypes] : n \in 0..MaxTypes }

\* radio.start_scan(*advertisement_types)
InitScan ==
    /\ scenario = "scan"
    /\ CodecIdle
    /\ AdvIdle
    /\ HidIdle
    /\ scan_types \in TypeLists
    /\ scan_entries = <<>>
    /\ scan_out = <<>>
    /\ remote = {}
    /\ discovered = <<>>
    /\ constructed = <<>>
    /\ discoveries = 0
    /\ lookups = 0
    /\ conn_ret = NoRet

\* One pass of the loop over the entries of the native scan
scan_entry ==
    /\ scenario = "scan"
    /\ Len(scan_entries) < MaxEntries
    /\ \E entry \in ScanPool :
           /\ adapter_delivers(entry, scan_prefixes(scan_types))
           /\ decode_data(entry, "B").ok
           /\ scan_entries' = Append(scan_entries, entry)
           /\ LET adv_type == choose_type(scan_types, 1, entry, "Advertisement")
                  advertisement == [cls |-> adv_type,
                                    entry |-> Len(scan_entries) + 1,
                                    data_dict |-> decode_data(entry, "B").dict]
              IN scan_out' = IF truthy(advertisement.data_dict)
                             THEN Append(scan_out, advertisement)
                             ELSE scan_out
    /\ UNCHANGED <<scenario, scan_types, remote, discovered, constructed, discoveries,
                   lookups, conn_ret>>
    /\ UNCHANGED codec_vars
    /\ UNCHANGED adv_vars
    /\ UNCHANGED hid_vars

NextScan == scan_entry

SpecScan == InitScan /\ [][NextScan]_vars

\* C24: with advertisement_types given, every advertisement produced is an
\* instance of one of them; with none given, the advertisements produced are
\* plain Advertisements, one for each entry delivered and in that order.
C24_ScanProduces ==
    scenario = "scan"
        => /\ scan_types # <<>>
                  => \A n \in 1..Len(scan_out) :
                         \E m \in 1..Len(scan_types) :
                             issubclass(scan_out[n].cls, scan_types[m])
           /\ scan_types = <<>>
                  => /\ Len(scan_out) = Len(scan_entries)
                     /\ \A n \in 1..Len(scan_out) :
                            /\ scan_out[n].cls = "Advertisement"
                            /\ scan_out[n].entry = n

(***************************************************************************)
(* BLEConnection (adafruit_ble/__init__.py).                               *)
(*                                                                         *)
(* A key is a Service class (it has a uuid attribute) or a bare UUID.  The *)
(* peer's services are fixed for the life of the connection; the native    *)
(* discover_remote_services returns the peer's service of the UUID asked   *)
(* for, or nothing.  A constructed Service is known by the lookup that     *)
(* built it.                                                               *)
(***************************************************************************)
MaxLookups == 3    \* most lookups made on one connection

UUIDs == {"0x180A", "0x180F", "0x1812"}

LookupKeys == [is_class : BOOLEAN, uuid : UUIDs]

\* self._bleio_connection.discover_remote_services((uuid.bleio_uuid,))
discover_remote_services(uuid) == IF uuid \in remote THEN <<[uuid |-> uuid]>> ELSE <<>>

\* d[key] = value on a dict held as a function
cache_set(d, key, value) == [k \in DOMAIN d \cup {key} |-> IF k = key THEN value ELSE d[k]]

\* _discover_remote: the service returned (none stands for None), the cache
\* afterwards and whether the native discovery ran
discover_remote(uuid) ==
    IF uuid \in DOMAIN discovered
    THEN [none |-> FALSE, service |-> discovered[uuid], cache |-> discovered, asked |-> 0]
    ELSE LET results == discover_remote_services(uuid)
         IN IF results # <<>>
            THEN [none |-> FALSE, service |-> results[1],
                  cache |-> cache_set(discovered, uuid, results[1]), asked |-> 1]
            ELSE [none |-> TRUE, service |-> [uuid |-> ""], cache |-> discovered, asked |-> 1]

ConnRet(op, key, kind, val) == [op |-> op, key |-> key, kind |-> kind, val |-> val]

\* BLEConnection(bleio_connection)
InitConn ==
    /\ scenario = "conn"
    /\ CodecIdle
    /\ AdvIdle
    /\ HidIdle
    /\ scan_types = <<>>
    /\ scan_entries = <<>>
    /\ scan_out = <<>>
    /\ remote \in SUBSET UUIDs
    /\ discovered = <<>>
    /\ constructed = <<>>
    /\ discoveries = 0
    /\ lookups = 0
    /\ conn_ret = NoRet

\* key in connection
contains ==
    /\ scenario = "conn"
    /\ lookups < MaxLookups
    /\ \E key \in LookupKeys :
           LET found == discover_remote(key.uuid)
           IN /\ discovered' = found.cache
              /\ discoveries' = discoveries + found.asked
              /\ conn_ret' = ConnRet("contains", key, "bool", ~found.none)
    /\ lookups' = lookups + 1
    /\ UNCHANGED <<scenario, scan_types, scan_entries, scan_out, remote, constructed>>
    /\ UNCHANGED codec_vars
    /\ UNCHANGED adv_vars
    /\ UNCHANGED hid_vars

\* connection[key]
getitem ==
    /\ scenario = "conn"
    /\ lookups < MaxLookups
    /\ \E key \in LookupKeys :
           LET uuid == key.uuid
               maybe_service == key.is_class
           IN IF uuid \in DOMAIN constructed
              THEN /\ conn_ret' = ConnRet("getitem", key, "service", constructed[uuid])
                   /\ UNCHANGED <<discovered, constructed, discoveries>>
              ELSE LET found == discover_remote(uuid)
                       constructed_service == [uuid |-> uuid, service |-> found.service,
                                               id |-> lookups + 1]
                   IN /\ discovered' = found.cache
                      /\ discoveries' = discoveries + found.asked
                      /\ IF found.none
                         THEN /\ conn_ret' = ConnRet("getitem", key, "KeyError", None)
                              /\ UNCHANGED constructed
                         ELSE IF maybe_service
                         THEN /\ constructed' = cache_set(constructed, uuid, constructed_service)
                              /\ conn_ret' = ConnRet("getitem", key, "service",
                                                     constructed_service)
                         ELSE /\ conn_ret' = ConnRet("getitem", key, "None", None)
                              /\ UNCHANGED constructed
    /\ lookups' = lookups + 1
    /\ UNCHANGED <<scenario, scan_types, scan_entries, scan_out, remote>>
    /\ UNCHANGED codec_vars
    /\ UNCHANGED adv_vars
    /\ UNCHANGED hid_vars

NextConn == contains \/ getitem

SpecConn == InitConn /\ [][NextConn]_vars

\* C25: connection[key] returns the Service of the key's UUID, for a Service
\* class and for a bare UUID alike, whenever the peer has a service of that
\* UUID, and raises KeyError when it has none.
C25_GetItem ==
    (scenario = "conn" /\ conn_ret.op = "getitem")
        => IF conn_ret.key.uuid \in remote
           THEN /\ conn_ret.kind = "service"
                /\ conn_ret.val.uuid = conn_ret.key.uuid
           ELSE conn_ret.kind = "KeyError"

(***************************************************************************)
(* Snapshots of the register tables                                        *)
(***************************************************************************)
RECURSIVE Preorder(_)
\* The frame and leaf nodes of the given trees in the order they were made:
\* a frame, then the nodes under it
Preorder(nodes) ==
    IF nodes = <<>> THEN <<>>
    ELSE LET node == Head(nodes)
         IN (IF "mains" \in DOMAIN node
             THEN <<[kind |-> "start", globals |-> node.globals, locals |-> node.locals]>>
                  \o Preorder(node.mains)
             ELSE <<[kind |-> node.tag, globals |-> node.globals, locals |-> node.locals]>>)
            \o Preorder(Tail(nodes))

RECURSIVE PreorderOpen(_)
\* The same for the frames of the stack, each opened after the nodes now
\* under the frame below it
PreorderOpen(stack) ==
    IF stack = <<>> THEN <<>>
    ELSE <<[kind |-> "start", globals |-> Head(stack).globals, locals |-> Head(stack).locals]>>
         \o Preorder(Head(stack).mains) \o PreorderOpen(Tail(stack))

RECURSIVE RefSnapshotsFrom(_, _, _, _)
RefSnapshotsFrom(desc, items, n, pos) ==
    IF n > Len(items) \/ items[n].at >= pos THEN <<>>
    ELSE (IF RefKind(items[n]) \in {"start", "input", "output"}
          THEN <<[kind |-> RefKind(items[n]),
                  globals |-> RefGlobals(desc, items[n].at),
                  locals |-> RefLocals(desc, items[n].at)]>>
          ELSE <<>>)
         \o RefSnapshotsFrom(desc, items, n + 1, pos)

\* For each StartCollection, Input and Output item before offset pos, the
\* global and local slots as the items before it leave them
RefSnapshots(desc, pos) == RefSnapshotsFrom(desc, RefItems(desc), 1, pos)

\* C26: the global and local tables recorded in every collection frame and
\* every Input/Output leaf, closed or still open, are at every later moment
\* of the call those in force when its item was read: no Global, Local or
\* Main item read afterwards changes them.
\* (When the call has raised, the item that raised it, which starts at i - 1
\* if it is an item of the stream, has recorded nothing.)
C26_Snapshots ==
    scenario = "hid"
        => LET recorded == Preorder(top_level_collections) \o PreorderOpen(collections)
           IN /\ h_pc \in {"items", "summarise", "returned"}
                     => recorded = RefSnapshots(report_map, h_i)
              /\ h_pc = "raised"
                     => \/ recorded = RefSnapshots(report_map, h_i)
                        \/ recorded = RefSnapshots(report_map, h_i - 1)

\* Two Input items in one collection, 8 x 8 bits and then, after a Report
\* Count of 3, 8 x 3 bits: a ReportIn of 88 bits, 11 bytes.
C26_Witness ==
    /\ h_pc = "returned"
    /\ Len(top_level_collections) = 1
    /\ Len(top_level_collections[1].mains) = 2
    /\ top_level_collections[1].mains[1].globals[10] = Data(<<8>>)
    /\ top_level_collections[1].mains[2].globals[10] = Data(<<3, 0>>)
    /\ devices = <<Endpoint("ReportIn", 1, 1, 6, 11)>>

(***************************************************************************)
(* The item loop as a loop                                                 *)
(***************************************************************************)
\* _init_devices is sequential code: a call that can take a step takes it.
SpecHidLive == SpecHid /\ WF_vars(NextHid)

\* The size-code of a prefix byte, its two low bits
RefSizeCode(b) == b - 4 * (b \div 4)

\* The number of data bytes a prefix byte announces
RefSize(b) == IF RefSizeCode(b) = 3 THEN 4 ELSE RefSizeCode(b)

\* C27: every pass of the item loop starts at the prefix byte of an item of
\* the stream (never at a data byte), decodes it as tag = bits 7..4,
\* type = bits 3..2, size-code = bits 1..0 with size 4 for size-code 3, and,
\* unless it raises, moves the position forward by exactly 1 + size; and the
\* loop is left, on every descriptor, after finitely many passes.
C27_ItemLoop ==
    /\ [][(h_pc = "items" /\ h_i < Len(report_map))
              => /\ RefItemAt(report_map, h_i) # {}
                 /\ h_item'.tag \in 0..15
                 /\ h_item'.type \in 0..3
                 /\ h_item'.tag * 16 + h_item'.type * 4 + RefSizeCode(report_map[h_i + 1])
                        = report_map[h_i + 1]
                 /\ h_item'.size = RefSize(report_map[h_i + 1])
                 /\ h_pc' = "items" => h_i' = h_i + 1 + RefSize(report_map[h_i + 1])
                 /\ h_i' > h_i]_vars
    /\ (h_pc = "items") ~> (h_pc # "items")

\* An item with size-code 3 was read: its four data bytes, the second of
\* which would be the prefix of a Main item, were passed as data and the
\* loop stands at the item after them.
C27_Witness ==
    /\ h_pc = "items"
    /\ RefSizeCode(h_item.b) = 3
    /\ h_item.data = <<1, 0, 0, 0>>
    /\ h_i < Len(report_map)
    /\ \E it \in RefItemAt(report_map, h_i) : it.at = h_i

\* C28: a call returns normally only if, at every Input and Output item that
\* was processed, global slots 7 (Report Size), 8 (Report ID) and 9 (Report
\* Count) had each been set by an item before it: a missing value is an
\* error, not 0.
C28_MissingGlobalsRaise ==
    (scenario = "hid" /\ h_pc = "returned")
        => \A n \in 1..Len(RefItems(report_map)) :
               LET it == RefItems(report_map)[n]
               IN RefKind(it) \in {"input", "output"}
                      => \A slot \in {7, 8, 9} :
                             ~RefGlobals(report_map, it.at)[slot + 1].none

====
